---------------------------- MODULE Spec2Model ----------------------------
(***************************************************************************)
(* A model of the operation execution engine of rush-lib: the operation    *)
(* executor, the build cache key derivation of ProjectBuildCache, its      *)
(* local/cloud restore and save protocol, the IPC operation runner, the    *)
(* logger registry of heft's LoggingManager, the web client of rush-lib    *)
(* and the asset hash update of the webpack localization plugin.           *)
(*                                                                         *)
(* The specifications share the variables below; each leaves the          *)
(* variables of the other components unchanged:                            *)
(*   SpecExec   the executor over an operation graph (SpecExecFair: with  *)
(*              weak fairness of its steps)                                *)
(*   SpecKey    ProjectBuildCache._getCacheId over bounded inputs          *)
(*   SpecCache  ProjectBuildCache.tryRestoreFromCacheAsync over tiers that *)
(*              hold entries already                                       *)
(*   SpecSave   ProjectBuildCache.trySetCacheEntryAsync, rebuilds and      *)
(*              restores, from empty tiers                                 *)
(*   SpecIpc    IPCOperationRunner.executeAsync and the events of its     *)
(*              child processes                                            *)
(*   SpecLog    LoggingManager.requestScopedLogger                         *)
(*   SpecTraverse  the closure traversal of _getCacheId, loop iteration by  *)
(*              loop iteration, over graphs with cycles (SpecTraverseFair: *)
(*              the loops keep running)                                    *)
(*   SpecWeb    makeRequestAsync of WebClient.ts and the events of its     *)
(*              requests                                                   *)
(*   SpecHashes  updateAssetHashes of the localization plugin, loop         *)
(*              iteration by loop iteration (SpecHashesFair: the loops     *)
(*              keep running)                                              *)
(*   SpecValidate  ProjectBuildCache.tryGetProjectBuildCache and the calls *)
(*              made on the instance it gives                              *)
(***************************************************************************)
EXTENDS Naturals, Integers, Sequences, FiniteSets

VARIABLES
  \* ---- cache key (ProjectBuildCache._getCacheId) ----
  options,        \* the IProjectBuildCacheOptions the cache id is computed from
  cacheIdResult,  \* outcome of _getCacheId(options), or NotComputed
  prevOptions,    \* the options of the previous computation
  prevResult,     \* its outcome
  lastChange,     \* which input the last step changed
  \* ---- executor ----
  dependencies,   \* operation -> set of operations it depends on
  concurrency,    \* the concurrency limit of this execution
  status,         \* operation -> OperationStatus
  unresolved,     \* operation -> count of unresolved dependencies
  invoked,        \* operation -> number of times its runner was invoked
  everQueued,     \* operation -> TRUE once it has been Queued
  settled,        \* operation -> number of times it received a terminal status
  \* ---- build cache (ProjectBuildCache restore and save) ----
  cacheId,        \* this._cacheId
  hasCloud,       \* this._cloudBuildCacheProvider is defined
  cloudWriteAllowed, \* this._cloudBuildCacheProvider.isCacheWriteAllowed === true
  tarUtility,     \* ProjectBuildCache._tarUtility: "null", "undefined" or "tar"
  tarInstalled,   \* whether TarExecutable.tryInitialize finds a tar binary
  localStore,     \* local tier: cache id -> entry or NoBuffer
  cloudStore,     \* cloud tier: cache id -> entry or NoBuffer
  outputFolders,  \* the file tree below the project folder
  pc,             \* position inside the running call, "ready" between calls
  locals,         \* its local variables
  log,            \* provider calls and terminal lines of the current call
  returned,       \* value returned by the last finished call
  restores,       \* number of restore calls finished
  history,        \* summary of each finished restore call
  saves,          \* number of trySetCacheEntryAsync calls finished
  saved,          \* summary of the last finished trySetCacheEntryAsync call
  builds,         \* number of times the project's outputs were rebuilt
  \* ---- IPC runner (IPCOperationRunner) ----
  persist,        \* this._persist
  procs,          \* the child processes spawned so far; the last is _ipcProcess
  runs,           \* the invocations of executeAsync so far
  hookCalls,      \* the requestors this._requestRun was called with
  uncaught,       \* the exceptions thrown out of an event listener of the child
  \* ---- logging (LoggingManager) ----
  scopedLoggers,  \* this._scopedLoggers: logger name -> ScopedLogger or NoLogger
  loggerRequests, \* the calls of requestScopedLogger so far and their outcomes
  \* ---- project validation (ProjectBuildCache.tryGetProjectBuildCache) ----
  buildCacheOptions,  \* the options of the last tryGetProjectBuildCache call
  projectBuildCache,  \* what that call gave: an instance, undefined or an exception
  terminalWarnings,  \* the warning lines the call wrote
  instanceCalls,  \* the restore and save calls made on the instance so far
  \* ---- closure traversal of ProjectBuildCache._getCacheId, step by step ----
  traversalOptions,  \* the options the traversal runs on
  toProcess,      \* projectsToProcess, in insertion order
  newToProcess,   \* newProjectsToProcess, in insertion order
  position,       \* the for-of loop's place in projectsToProcess
  haveBeenProcessed,  \* projectsThatHaveBeenProcessed
  statesPushed,   \* projectStates
  timesProcessed,  \* project -> iterations of the for-of loop spent on it
  traversalPc,    \* "loop", "undefined" (returned at line 429) or "sort" (loop left)
  \* ---- web client (makeRequestAsync of WebClient.ts) ----
  redirect,       \* options.redirect of the fetch: "follow", "error", "manual" or "undefined"
  server,         \* url -> the status code and Location header the server answers with
  webRequests,    \* the calls of makeRequestAsync so far, redirect requests included
  \* ---- asset hashes (updateAssetHashes of trueHashes.ts) ----
  compilation,    \* the chunks of the compilation: runtime flag, async chunks, rendered hash, .js asset
  unprocessedDependenciesByChunk,  \* chunk -> its dependencies not processed yet
  unprocessedChunks,  \* the chunks not processed yet
  hashReplacementsByChunk,  \* the chunks with a recorded hash replacement
  previousSize,   \* size of unprocessedChunks at the previous pass
  cursor,         \* the for-of loop's place in unprocessedChunks
  compilationErrors,  \* compilation.errors
  processedChunks,  \* the chunks processed so far, with the dependencies lacking then
  hashPc          \* "while", "for" or "done"

keyVars == <<options, cacheIdResult, prevOptions, prevResult, lastChange>>
execVars == <<dependencies, concurrency, status, unresolved, invoked, everQueued, settled>>
cacheVars == <<cacheId, hasCloud, cloudWriteAllowed, tarUtility, tarInstalled, localStore,
               cloudStore, outputFolders, pc, locals, log, returned, restores, history,
               saves, saved, builds>>
ipcVars == <<persist, procs, runs, hookCalls, uncaught>>
logVars == <<scopedLoggers, loggerRequests>>
validateVars == <<buildCacheOptions, projectBuildCache, terminalWarnings, instanceCalls>>
traverseVars == <<traversalOptions, toProcess, newToProcess, position, haveBeenProcessed, statesPushed, timesProcessed, traversalPc>>
webVars == <<redirect, server, webRequests>>
hashesVars == <<compilation, unprocessedDependenciesByChunk, unprocessedChunks, hashReplacementsByChunk, previousSize, cursor, compilationErrors, processedChunks, hashPc>>
vars == <<keyVars, execVars, cacheVars, ipcVars, logVars, validateVars, traverseVars, webVars, hashesVars>>

\* what the steps of one component leave alone
besidesKey == <<execVars, cacheVars, ipcVars, logVars, validateVars, traverseVars, webVars, hashesVars>>
besidesExec == <<keyVars, cacheVars, ipcVars, logVars, validateVars, traverseVars, webVars, hashesVars>>
besidesCache == <<keyVars, execVars, ipcVars, logVars, validateVars, traverseVars, webVars, hashesVars>>
besidesIpc == <<keyVars, execVars, cacheVars, logVars, validateVars, traverseVars, webVars, hashesVars>>
besidesLog == <<keyVars, execVars, cacheVars, ipcVars, validateVars, traverseVars, webVars, hashesVars>>
besidesValidate == <<keyVars, execVars, cacheVars, ipcVars, logVars, traverseVars, webVars, hashesVars>>
besidesTraverse == <<keyVars, execVars, cacheVars, ipcVars, logVars, validateVars, webVars, hashesVars>>
besidesWeb == <<keyVars, execVars, cacheVars, ipcVars, logVars, validateVars, traverseVars, hashesVars>>
besidesHashes == <<keyVars, execVars, cacheVars, ipcVars, logVars, validateVars, traverseVars, webVars>>

----------------------------------------------------------------------------
(* Bounds of the model *)

MaxProjects == 3
MaxOperations == 3
MaxConcurrency == 2
MaxRestores == 2
MaxSaves == 1
MaxBuilds == 1
MaxRuns == 2
MaxRequests == 1
MaxLoggerRequests == 4
MaxInstanceCalls == 2
MaxWebRequests == 3
MaxChunks == 3

----------------------------------------------------------------------------
(* Strings are sequences of UTF-16 code units *)

\* a value of type T | undefined
Undefined == [defined |-> FALSE, value |-> <<>>]
Some(v) == [defined |-> TRUE, value |-> v]

\* a < b in the order Array.prototype.sort() uses by default (code units)
RECURSIVE StringLess(_, _)
StringLess(a, b) ==
  IF b = <<>> THEN FALSE
  ELSE IF a = <<>> THEN TRUE
  ELSE IF Head(a) # Head(b) THEN Head(a) < Head(b)
  ELSE StringLess(Tail(a), Tail(b))

RECURSIVE InsertSorted(_, _)
InsertSorted(sorted, s) ==
  IF sorted = <<>> THEN <<s>>
  ELSE IF StringLess(s, Head(sorted)) THEN <<s>> \o sorted
  ELSE <<Head(sorted)>> \o InsertSorted(Tail(sorted), s)

\* a sort() call that leaves the array in insertion order
SortOmitted(strs) == strs

RECURSIVE Sort(_)
Sort(strs) ==
  IF strs = <<>> THEN <<>>
  ELSE InsertSorted(Sort(Tail(strs)), Head(strs))

\* 34 is the double quote, 92 the backslash, 44 the comma, 91 and 93 the brackets
RECURSIVE JsonEscape(_)
JsonEscape(s) ==
  IF s = <<>> THEN <<>>
  ELSE (IF Head(s) \in {34, 92} THEN <<92, Head(s)>> ELSE <<Head(s)>>)
       \o JsonEscape(Tail(s))

RECURSIVE JsonElements(_)
JsonElements(names) ==
  IF names = <<>> THEN <<>>
  ELSE <<34>> \o JsonEscape(Head(names)) \o <<34>>
       \o (IF Tail(names) = <<>> THEN <<>> ELSE <<44>> \o JsonElements(Tail(names)))

\* JSON.stringify of a string[] | undefined
JsonStringify(names) ==
  IF ~names.defined THEN Undefined
  ELSE Some(<<91>> \o JsonElements(names.value) \o <<93>>)

\* RushConstants.hashDelimiter, the character |
hashDelimiter == <<124>>

----------------------------------------------------------------------------
(* ProjectBuildCache._getCacheId *)

Projects == 1..MaxProjects
RootProject == 1

\* the outcome of a call: a cache id, undefined, or a thrown TypeError
IdResult(v) == [kind |-> "id", value |-> v]
UndefinedResult == [kind |-> "undefined", value |-> <<>>]
ThrowResult == [kind |-> "throw", value |-> <<>>]
NotComputed == [kind |-> "none", value |-> <<>>]

getProjectStateHash(opts, p) == opts.projectStates[p]

\* Set.prototype.add on a Set kept in insertion order
SetAdd(s, x) == IF \E i \in 1..Len(s) : s[i] = x THEN s ELSE Append(s, x)

RECURSIVE AddUnprocessed(_, _, _)
AddUnprocessed(newProjectsToProcess, deps, processed) ==
  IF deps = <<>> THEN newProjectsToProcess
  ELSE AddUnprocessed(
         IF Head(deps) \notin processed
           THEN SetAdd(newProjectsToProcess, Head(deps))
           ELSE newProjectsToProcess,
         Tail(deps), processed)

\* the for-of loop over projectsToProcess, from its i-th element on
RECURSIVE ProcessLevel(_, _, _, _, _, _)
ProcessLevel(opts, projectsToProcess, i, processed, projectStates, newProjectsToProcess) ==
  IF i > Len(projectsToProcess)
    THEN [known |-> TRUE, processed |-> processed, projectStates |-> projectStates,
          newProjectsToProcess |-> newProjectsToProcess]
    ELSE LET projectToProcess == projectsToProcess[i]
             processed1 == processed \cup {projectToProcess}
             projectState == getProjectStateHash(opts, projectToProcess)
         IN IF ~projectState.defined \/ projectState.value = <<>>   \* !projectState
              THEN [known |-> FALSE, processed |-> processed1,
                    projectStates |-> projectStates,
                    newProjectsToProcess |-> newProjectsToProcess]
              ELSE ProcessLevel(opts, projectsToProcess, i + 1, processed1,
                     Append(projectStates, projectState.value),
                     AddUnprocessed(newProjectsToProcess,
                                    opts.dependencyProjects[projectToProcess],
                                    processed1))

\* the while loop over levels
RECURSIVE CollectProjectStates(_, _, _, _)
CollectProjectStates(opts, projectsToProcess, processed, projectStates) ==
  IF Len(projectsToProcess) = 0
    THEN [known |-> TRUE, projectStates |-> projectStates]
    ELSE LET level == ProcessLevel(opts, projectsToProcess, 1, processed,
                                   projectStates, <<>>)
         IN IF ~level.known
              THEN [known |-> FALSE, projectStates |-> level.projectStates]
              ELSE CollectProjectStates(opts, level.newProjectsToProcess,
                                        level.processed, level.projectStates)

RECURSIVE HashProjectStates(_)
HashProjectStates(sortedProjectStates) ==
  IF sortedProjectStates = <<>> THEN <<>>
  ELSE Head(sortedProjectStates) \o hashDelimiter
       \o HashProjectStates(Tail(sortedProjectStates))

\* the bytes fed to the SHA1 hash, in order
HashInput(opts, sortedProjectStates) ==
  JsonStringify(opts.projectOutputFolderNames).value \o hashDelimiter
    \o opts.command \o hashDelimiter
    \o HashProjectStates(sortedProjectStates)

\* crypto.createHash('sha1') ... digest('hex'), taken to be injective
Sha1Hex(input) == <<"sha1", input>>

\* BuildCacheConfiguration.getCacheEntryId
getCacheEntryId(projectName, projectStateHash) == <<projectName, projectStateHash>>

_getCacheId(opts) ==
  LET collected == CollectProjectStates(opts, <<RootProject>>, {}, <<>>)
  IN IF ~collected.known THEN UndefinedResult
     ELSE IF ~JsonStringify(opts.projectOutputFolderNames).defined
       THEN ThrowResult     \* hash.update(undefined) throws a TypeError
     ELSE IdResult(getCacheEntryId(RootProject,
            Sha1Hex(HashInput(opts, Sort(collected.projectStates)))))

----------------------------------------------------------------------------
(* Inputs of the cache key computation *)

\* the state hash PackageChangeAnalyzer reports for a project with known state
HashOf(p) == <<96 + ((p * 2) % 5), 97 + (p % 2)>>

StateHashes == {HashOf(p) : p \in Projects} \cup {<<97>>}

\* the commands "x" and "x|a" (a command may hold the delimiter)
Commands == {<<120>>, <<120, 124, 97>>}

\* the folder lists [], ["d"] and ["d", "l"]
OutputFolderLists == {<<>>, << <<100>> >>, << <<100>>, <<108>> >>}

\* the sequences that list every element of S once
Orderings(S) ==
  {f \in [1..Cardinality(S) -> S] : \A i, j \in 1..Cardinality(S) : i # j => f[i] # f[j]}

Range(f) == {f[i] : i \in DOMAIN f}

\* declared dependencies of p, in declaration order; edges lead to later projects
DependencyLists == [p \in Projects |->
                      UNION {Orderings(S) : S \in SUBSET {q \in Projects : q > p}}]

DependencyGraphs ==
  {g \in [Projects -> UNION {DependencyLists[p] : p \in Projects}] :
     \A p \in Projects : g[p] \in DependencyLists[p]}

\* each project has its state hash or none
ProjectStateMaps ==
  {g \in [Projects -> {Undefined} \cup {Some(HashOf(p)) : p \in Projects}] :
     \A p \in Projects : g[p] \in {Undefined, Some(HashOf(p))}}

KeyInputs ==
  /\ \E d \in DependencyGraphs, st \in ProjectStateMaps,
        f \in {Undefined, Some(<<>>), Some(<< <<100>> >>)} :
       options = [dependencyProjects |-> d, projectStates |-> st, command |-> <<120>>,
                  projectOutputFolderNames |-> f]
  /\ cacheIdResult = NotComputed
  /\ prevOptions = options
  /\ prevResult = NotComputed
  /\ lastChange = "init"

\* new ProjectBuildCache(options): this._cacheId = _getCacheId(options)
Construct ==
  /\ lastChange = "init"
  /\ cacheIdResult' = _getCacheId(options)
  /\ lastChange' = "constructed"
  /\ UNCHANGED <<options, prevOptions, prevResult, besidesKey>>

\* a later construction whose options differ from the previous ones in one input
Reconstruct(newOptions, kind) ==
  /\ lastChange = "constructed"
  /\ newOptions # options
  /\ prevOptions' = options
  /\ prevResult' = cacheIdResult
  /\ options' = newOptions
  /\ cacheIdResult' = _getCacheId(newOptions)
  /\ lastChange' = kind
  /\ UNCHANGED besidesKey

ChangeProjectState ==
  \E p \in Projects, h \in {Undefined} \cup {Some(x) : x \in StateHashes} :
    Reconstruct([options EXCEPT !.projectStates[p] = h], "state")

ChangeCommand ==
  \E c \in Commands : Reconstruct([options EXCEPT !.command = c], "command")

ChangeOutputFolders ==
  \E f \in {Undefined} \cup {Some(x) : x \in OutputFolderLists} :
    Reconstruct([options EXCEPT !.projectOutputFolderNames = f], "folders")

ReorderDependencies ==
  \E p \in Projects : \E d \in Orderings(Range(options.dependencyProjects[p])) :
    Reconstruct([options EXCEPT !.dependencyProjects[p] = d], "order")

NextKey ==
  \/ Construct
  \/ ChangeProjectState
  \/ ChangeCommand
  \/ ChangeOutputFolders
  \/ ReorderDependencies

----------------------------------------------------------------------------
(* The executor: execute(graph, concurrencyLimit) *)

Operations == 1..MaxOperations

SuccessLike == {"Success", "SuccessWithWarning", "Skipped", "NoOp"}
Terminal == SuccessLike \cup {"Failure", "Blocked"}
\* what the cache-then-runner pipeline of one operation can end with
PipelineResults == SuccessLike \cup {"Failure"}
OperationStatus == {"Waiting", "Ready", "Queued", "Executing"} \cup Terminal

\* the operations that depend directly on o
Dependents(o) == {d \in Operations : o \in dependencies[d]}

\* only the direct dependents of a failed operation
DirectDependentsOnly(from) == UNION {Dependents(o) : o \in from}

\* the operations that depend on an operation of `from`, directly or transitively
RECURSIVE TransitiveDependents(_)
TransitiveDependents(from) ==
  LET more == from \cup UNION {Dependents(o) : o \in from}
  IN IF more = from THEN UNION {Dependents(o) : o \in from}
     ELSE TransitiveDependents(more)

\* the pool has a worker that holds no operation
WorkerAlwaysFree == TRUE

HasIdleWorker ==
  Cardinality({o \in Operations : status[o] \in {"Queued", "Executing"}}) < concurrency

\* a dependent becomes eligible as soon as one of its dependencies ends
EligibleOnAnyDependency(d, newStatus, newUnresolved) ==
  status[d] = "Waiting"

\* a dependent becomes eligible when its count reaches zero and all its
\* dependencies are success-like
Eligible(d, newStatus, newUnresolved) ==
  /\ status[d] = "Waiting"
  /\ newUnresolved[d] = 0
  /\ \A x \in dependencies[d] : newStatus[x] \in SuccessLike

\* every dependent of a failed operation, those already terminal included
BlockedAgain(o) == TransitiveDependents({o})

\* the dependents a failure of o blocks: those not yet terminal
NewlyBlocked(o) == {d \in TransitiveDependents({o}) : status[d] \notin Terminal}

ExecInputs ==
  /\ dependencies \in {g \in [Operations -> SUBSET Operations] :
                         \A o \in Operations : g[o] \subseteq {x \in Operations : x < o}}
  /\ concurrency \in 1..MaxConcurrency
  /\ unresolved = [o \in Operations |-> Cardinality(dependencies[o])]
  /\ status = [o \in Operations |-> IF dependencies[o] = {} THEN "Ready" ELSE "Waiting"]
  /\ invoked = [o \in Operations |-> 0]
  /\ everQueued = [o \in Operations |-> FALSE]
  /\ settled = [o \in Operations |-> 0]

\* a worker pops the first eligible operation, in declaration order
Dequeue(o) ==
  /\ status[o] = "Ready"
  /\ \A x \in Operations : status[x] = "Ready" => o <= x
  /\ HasIdleWorker
  /\ status' = [status EXCEPT ![o] = "Queued"]
  /\ everQueued' = [everQueued EXCEPT ![o] = TRUE]
  /\ UNCHANGED <<dependencies, concurrency, unresolved, invoked, settled, besidesExec>>

\* the worker starts the pipeline of its operation
Execute(o) ==
  /\ status[o] = "Queued"
  /\ status' = [status EXCEPT ![o] = "Executing"]
  /\ invoked' = [invoked EXCEPT ![o] = invoked[o] + 1]
  /\ UNCHANGED <<dependencies, concurrency, unresolved, everQueued, settled, besidesExec>>

\* the pipeline of o ends with a terminal status
Complete(o, result) ==
  /\ status[o] = "Executing"
  /\ LET blocked == IF result = "Failure" THEN NewlyBlocked(o) ELSE {}
         newUnresolved == [d \in Operations |->
                             IF d \in Dependents(o) THEN unresolved[d] - 1
                             ELSE unresolved[d]]
         ended == [d \in Operations |->
                     IF d = o THEN result
                     ELSE IF d \in blocked THEN "Blocked"
                     ELSE status[d]]
     IN /\ unresolved' = newUnresolved
        /\ status' = [d \in Operations |->
                        IF d \in Dependents(o) /\ Eligible(d, ended, newUnresolved)
                          THEN "Ready"
                          ELSE ended[d]]
        /\ settled' = [d \in Operations |->
                         IF d = o \/ d \in blocked THEN settled[d] + 1 ELSE settled[d]]
  /\ UNCHANGED <<dependencies, concurrency, invoked, everQueued, besidesExec>>

NextExec ==
  \/ \E o \in Operations : Dequeue(o)
  \/ \E o \in Operations : Execute(o)
  \/ \E o \in Operations, result \in PipelineResults : Complete(o, result)

----------------------------------------------------------------------------
(* ProjectBuildCache over the local and cloud tiers: the project's files,  *)
(* the cache entries, tryRestoreFromCacheAsync and trySetCacheEntryAsync   *)

CacheIds == {"k1", "k2"}
NoEntry == "none"

\* this._projectOutputFolderNames
OutputFolderNames == <<"dist", "lib">>

\* the files below the project folder, as relative paths split at "/";
\* src/x lies outside the declared output folders
Paths == {<<"dist", "a">>, <<"dist", "sub", "b">>, <<"lib", "c">>, <<"src", "x">>}

\* a file tree maps every path to "absent", to the file's content ("v1", "v2")
\* or to "link" when the entry is a symbolic link
Tree(a, b, c) ==
  [p \in Paths |-> CASE p = <<"dist", "a">> -> a
                     [] p = <<"dist", "sub", "b">> -> b
                     [] p = <<"lib", "c">> -> c
                     [] OTHER -> "v1"]

StaleTree == Tree("v2", "v2", "v2")

\* the files of the declared output folders, with their contents
DeclaredFiles(tree) ==
  {<<p, tree[p]>> : p \in {q \in Paths : q[1] \in Range(OutputFolderNames)
                                          /\ tree[q] # "absent"}}

\* lines 319-328: FileSystem.existsAsync of a declared output folder
FolderExists(tree, name) == \E p \in Paths : p[1] = name /\ tree[p] # "absent"

\* line 364: the names FileSystem.readFolderItemsAsync lists in a folder
Entries(tree, folder) ==
  {q[Len(folder) + 1] : q \in {p \in Paths : /\ tree[p] # "absent"
                                             /\ Len(p) > Len(folder)
                                             /\ SubSeq(p, 1, Len(folder)) = folder}}

\* an enumeration that yields symbolic links like files
GetPathsFollowingLinks(tree, posixPrefix) ==
  [paths |-> {p \in Paths : /\ tree[p] # "absent"
                            /\ Len(p) > Len(posixPrefix)
                            /\ SubSeq(p, 1, Len(posixPrefix)) = posixPrefix},
   symlinks |-> {}]

\* lines 360-387: the file paths the generator yields below posixPrefix, and the
\* symbolic links it hands to symbolicLinkPathCallback
RECURSIVE _getPathsInFolder(_, _)
_getPathsInFolder(tree, posixPrefix) ==
  LET entryPaths == {Append(posixPrefix, name) : name \in Entries(tree, posixPrefix)}
      links == {e \in entryPaths : e \in Paths /\ tree[e] = "link"}
      folders == {e \in entryPaths : e \notin Paths}
      below == {_getPathsInFolder(tree, d) : d \in folders}
  IN [paths |-> (entryPaths \ (links \cup folders)) \cup UNION {r.paths : r \in below},
      symlinks |-> links \cup UNION {r.symlinks : r \in below}]

\* lines 339-351: the loop over the existing output folders; it stops before
\* the folder that follows one with a symbolic link
RECURSIVE CollectFolders(_, _, _)
CollectFolders(tree, folders, acc) ==
  IF acc.encounteredEnumerationIssue \/ folders = <<>>
    THEN acc
    ELSE LET found == _getPathsInFolder(tree, <<Head(folders)>>)
         IN CollectFolders(tree, Tail(folders),
              [encounteredEnumerationIssue |-> found.symlinks # {},
               outputFilePaths |-> acc.outputFilePaths \cup found.paths,
               symlinks |-> acc.symlinks \cup found.symlinks])

\* lines 315-358: undefined (defined = FALSE) when a symbolic link was met
_tryCollectPathsToCacheAsync(tree) ==
  LET filtered == SelectSeq(OutputFolderNames, LAMBDA name : FolderExists(tree, name))
      collected == CollectFolders(tree, filtered,
                     [encounteredEnumerationIssue |-> FALSE, outputFilePaths |-> {},
                      symlinks |-> {}])
  IN [defined |-> ~collected.encounteredEnumerationIssue,
      filteredOutputFolderNames |-> filtered,
      outputFilePaths |-> collected.outputFilePaths,
      symlinks |-> collected.symlinks]

\* a cache entry or buffer: an archive of files, a truncated archive, or none
NoBuffer == [kind |-> "none", files |-> {}]
Truncated == [kind |-> "truncated", files |-> {}]

\* lines 237-241 and 254-264: the archive of the listed paths, relative to the
\* project folder
Pack(tree, paths) == [kind |-> "archive", files |-> {<<p, tree[p]>> : p \in paths}]

\* an unpacking that skips the entries of nested folders
UnpackTopLevelOnly(tree, archive) ==
  [p \in Paths |-> IF Len(p) = 2 /\ \E e \in archive.files : e[1] = p
                     THEN (CHOOSE e \in archive.files : e[1] = p)[2]
                     ELSE tree[p]]

\* lines 167-171 and 183-190: the archive's files written below the project
\* folder, over what is there
Unpack(tree, archive) ==
  [p \in Paths |-> IF \E e \in archive.files : e[1] = p
                     THEN (CHOOSE e \in archive.files : e[1] = p)[2]
                     ELSE tree[p]]

\* an unpacking that stopped early: none or one of the archive's files is written
PartialUnpacks(tree, archive) ==
  {Unpack(tree, [archive EXCEPT !.files = part]) :
     part \in {{}} \cup {{e} : e \in archive.files}}

\* a purge that removes nothing
PurgeNothing(tree) == tree

\* lines 153-161: FileSystem.deleteFolderAsync of every declared output folder
PurgeOutputFolders(tree) ==
  [p \in Paths |-> IF p[1] \in Range(OutputFolderNames) THEN "absent" ELSE tree[p]]

Blobs ==
  {Pack(t, _tryCollectPathsToCacheAsync(t).outputFilePaths) :
     t \in {Tree("v1", "v1", "absent"), Tree("v2", "absent", "v1")}}

\* no trySetCacheEntryAsync call has finished yet
NoSave ==
  [result |-> "none", files |-> {}, hasSymlink |-> FALSE, reportedSymlinks |-> {},
   log |-> <<>>, localEntry |-> NoBuffer, cloudEntry |-> NoBuffer]

\* the local variables of a call; treeAtCall remembers the file tree the call
\* started from
NoLocals ==
  [localCacheEntryPath |-> NoEntry, cacheEntryBuffer |-> NoBuffer,
   updateLocalCacheSuccess |-> "undefined", restoreSuccess |-> FALSE,
   outputFilePaths |-> {}, localCachePath |-> "unset",
   updateCloudCacheSuccess |-> "unset",
   treeAtCall |-> Tree("absent", "absent", "absent")]

\* FileSystemBuildCacheProvider.tryGetCacheEntryPathByIdAsync: the path of the
\* entry (named by its id) when a file exists there
tryGetCacheEntryPathByIdAsync(id) == IF localStore[id] # NoBuffer THEN id ELSE NoEntry

\* CloudBuildCacheProviderBase.tryGetCacheEntryBufferByIdAsync
tryGetCacheEntryBufferByIdAsync(id) == cloudStore[id]

\* a cloud query made whenever a cloud provider is configured
QueryCloudAlways(path) == hasCloud

\* line 123: the cloud tier is queried after a local miss, if it is configured
ShouldQueryCloud(path) == path = NoEntry /\ hasCloud

\* line 146, had the test let a miss in both tiers through
MissNeverNoticed(l) == FALSE

\* line 146: neither tier holds the entry
NotFound(l) == l.localCacheEntryPath = NoEntry /\ l.cacheEntryBuffer = NoBuffer

LocalGetEvent(path) == IF path = NoEntry THEN "local.get:miss" ELSE "local.get:hit"

\* FileSystemBuildCacheProvider.trySetCacheEntryBufferAsync, when the write works:
\* the local tier afterwards
LocalStoreAfterSet(id, buffer) == [localStore EXCEPT ![id] = buffer]

\* FileSystem.readFileToBufferAsync of a local entry path
readFileToBufferAsync(path) == localStore[path]

\* a tar utility taken to be there without looking for the binary
TarAssumedInstalled == "tar"

\* ProjectBuildCache._tryGetTarUtility: the value of _tarUtility after the call
TarUtilityAfterGet ==
  IF tarUtility = "null"
    THEN (IF tarInstalled THEN "tar" ELSE "undefined")
    ELSE tarUtility

\* a missing cache id reported by throwing
NoCacheIdThrows == "throw:Unable to get cache ID."

\* lines 113-116 and 214-217: without a cache id both calls warn and return false
NoCacheIdResult == "false"

NoCacheIdLog == <<"warn:Unable to get cache ID. Ensure Git is installed.">>

CacheInputs ==
  /\ cacheId \in {Undefined} \cup {Some(k) : k \in CacheIds}
  /\ hasCloud \in BOOLEAN
  /\ cloudWriteAllowed = FALSE
  /\ tarInstalled \in BOOLEAN
  /\ tarUtility = "null"
  /\ localStore \in [CacheIds -> Blobs \cup {NoBuffer}]
  /\ cloudStore \in [CacheIds -> Blobs \cup {NoBuffer}]
  /\ hasCloud = FALSE => cloudStore = [k \in CacheIds |-> NoBuffer]
  /\ outputFolders = StaleTree
  /\ pc = "ready"
  /\ locals = NoLocals
  /\ log = <<>>
  /\ returned = "none"
  /\ restores = 0
  /\ history = <<>>
  /\ saves = 0
  /\ saved = NoSave
  /\ builds = 0

\* the call returns (or throws): its caller sees `value`
Return(value, finalLocals, finalLog) ==
  /\ returned' = value
  /\ locals' = finalLocals
  /\ log' = finalLog
  /\ history' = Append(history,
       [localHit |-> \E i \in 1..Len(finalLog) : finalLog[i] = "local.get:hit",
        cloudQueried |-> \E i \in 1..Len(finalLog) :
                           finalLog[i] \in {"cloud.get:hit", "cloud.get:miss"},
        cloudHit |-> \E i \in 1..Len(finalLog) : finalLog[i] = "cloud.get:hit",
        backfill |-> finalLocals.updateLocalCacheSuccess,
        buffer |-> finalLocals.cacheEntryBuffer,
        restoreSuccess |-> finalLocals.restoreSuccess,
        before |-> IF pc = "ready" THEN outputFolders ELSE finalLocals.treeAtCall,
        after |-> outputFolders',
        result |-> value])
  /\ restores' = restores + 1
  /\ pc' = "ready"

\* a restore that reports failure when the local tier could not be updated
ReturnFalseOnBackfillFailure(finalLocals, logSoFar) ==
  Return(IF finalLocals.restoreSuccess /\ finalLocals.updateLocalCacheSuccess # "false"
           THEN "true" ELSE "false",
         finalLocals, Append(logSoFar, "warn:Unable to restore output from the build cache."))

\* lines 199-208: the closing terminal lines and the returned flag
ReturnRestoreSuccess(finalLocals, logSoFar) ==
  Return(IF finalLocals.restoreSuccess THEN "true" ELSE "false", finalLocals,
         logSoFar
           \o (IF finalLocals.restoreSuccess
                THEN <<"line:Successfully restored output from the build cache.">>
                ELSE <<"warn:Unable to restore output from the build cache.">>)
           \o (IF finalLocals.updateLocalCacheSuccess = "false"
                THEN <<"warn:Unable to update the local build cache with data from the cloud cache.">>
                ELSE <<>>))

\* lines 112-123 and 146-149: the cache id check and the local tier query
RestoreBegin ==
  /\ pc = "ready"
  /\ restores + saves < MaxRestores
  /\ UNCHANGED <<cacheId, hasCloud, cloudWriteAllowed, tarInstalled, tarUtility, localStore,
                 cloudStore, outputFolders, saves, saved, builds, besidesCache>>
  /\ IF ~cacheId.defined
       THEN Return(NoCacheIdResult, NoLocals, NoCacheIdLog)
       ELSE LET path == tryGetCacheEntryPathByIdAsync(cacheId.value)
                found == [NoLocals EXCEPT !.localCacheEntryPath = path,
                                          !.treeAtCall = outputFolders]
            IN IF ShouldQueryCloud(path)
                 THEN /\ pc' = "cloudGet"
                      /\ locals' = found
                      /\ log' = <<LocalGetEvent(path)>>
                      /\ UNCHANGED <<returned, restores, history>>
                 ELSE IF NotFound(found)
                   THEN Return("false", found,
                          <<LocalGetEvent(path), "verbose:This project was not found in the build cache.">>)
                   ELSE /\ pc' = "purge"
                        /\ locals' = found
                        /\ log' = <<LocalGetEvent(path)>>
                        /\ UNCHANGED <<returned, restores, history>>

\* lines 128-132 and 146-149: the cloud tier query
RestoreQueryCloud ==
  /\ pc = "cloudGet"
  /\ UNCHANGED <<cacheId, hasCloud, cloudWriteAllowed, tarInstalled, tarUtility, localStore,
                 cloudStore, outputFolders, saves, saved, builds, besidesCache>>
  /\ LET buffer == tryGetCacheEntryBufferByIdAsync(cacheId.value)
         got == [locals EXCEPT !.cacheEntryBuffer = buffer]
     IN IF buffer # NoBuffer
          THEN /\ pc' = "backfill"
               /\ locals' = got
               /\ log' = Append(log, "cloud.get:hit")
               /\ UNCHANGED <<returned, restores, history>>
          ELSE IF NotFound(got)
            THEN Return("false", got,
                   log \o <<"cloud.get:miss", "verbose:This project was not found in the build cache.">>)
            ELSE /\ pc' = "purge"
                 /\ locals' = got
                 /\ log' = Append(log, "cloud.get:miss")
                 /\ UNCHANGED <<returned, restores, history>>

\* a backfill that reports success without writing the entry
RestoreBackfillNoWrite ==
  /\ pc = "backfill"
  /\ locals' = [locals EXCEPT !.localCacheEntryPath = cacheId.value,
                               !.updateLocalCacheSuccess = "true"]
  /\ log' = Append(log, "local.set:ok")
  /\ pc' = "purge"
  /\ UNCHANGED <<cacheId, hasCloud, cloudWriteAllowed, tarInstalled, tarUtility, localStore,
                 cloudStore, outputFolders, returned, restores, history, saves, saved, builds,
                 besidesCache>>

\* lines 133-143: the backfill of the local tier, which may throw
RestoreBackfill ==
  /\ pc = "backfill"
  /\ \/ /\ localStore' = LocalStoreAfterSet(cacheId.value, locals.cacheEntryBuffer)
        /\ locals' = [locals EXCEPT !.localCacheEntryPath = cacheId.value,
                                     !.updateLocalCacheSuccess = "true"]
        /\ log' = Append(log, "local.set:ok")
     \/ /\ localStore' = localStore
        /\ locals' = [locals EXCEPT !.updateLocalCacheSuccess = "false"]
        /\ log' = Append(log, "local.set:throw")
  /\ pc' = "purge"
  /\ UNCHANGED <<cacheId, hasCloud, cloudWriteAllowed, tarInstalled, tarUtility, cloudStore,
                 outputFolders, returned, restores, history, saves, saved, builds, besidesCache>>

\* a restore that unpacks over whatever the output folders hold
RestoreWithoutPurge ==
  /\ pc = "purge"
  /\ outputFolders' = outputFolders
  /\ tarUtility' = TarUtilityAfterGet
  /\ log' = log \o <<"line:Build cache hit.", "purge">>
  /\ pc' = IF TarUtilityAfterGet = "tar" /\ locals.localCacheEntryPath # NoEntry
             THEN "untar" ELSE "extract"
  /\ UNCHANGED <<cacheId, hasCloud, cloudWriteAllowed, tarInstalled, localStore, cloudStore,
                 locals, returned, restores, history, saves, saved, builds, besidesCache>>

\* lines 151-162: the purge of the output folders, then the tar utility lookup
RestorePurge ==
  /\ pc = "purge"
  /\ outputFolders' = PurgeOutputFolders(outputFolders)
  /\ tarUtility' = TarUtilityAfterGet
  /\ log' = log \o <<"line:Build cache hit.", "purge">>
  /\ pc' = IF TarUtilityAfterGet = "tar" /\ locals.localCacheEntryPath # NoEntry
             THEN "untar" ELSE "extract"
  /\ UNCHANGED <<cacheId, hasCloud, cloudWriteAllowed, tarInstalled, localStore, cloudStore,
                 locals, returned, restores, history, saves, saved, builds, besidesCache>>

\* lines 163-175 and 199-208: the tar binary unpacks the local entry; it exits
\* with 0 only on a complete archive
RestoreUntar ==
  /\ pc = "untar"
  /\ UNCHANGED <<cacheId, hasCloud, cloudWriteAllowed, tarInstalled, tarUtility, localStore,
                 cloudStore, saves, saved, builds, besidesCache>>
  /\ LET archive == readFileToBufferAsync(locals.localCacheEntryPath)
     IN \/ /\ archive.kind = "archive"
           /\ outputFolders' = Unpack(outputFolders, archive)
           /\ ReturnRestoreSuccess([locals EXCEPT !.restoreSuccess = TRUE],
                                   Append(log, "tar.untar:0"))
        \/ /\ outputFolders' \in PartialUnpacks(outputFolders, archive)
           /\ pc' = "extract"
           /\ log' = log \o <<"tar.untar:1", "warn:tar exited with a non-zero code">>
           /\ UNCHANGED <<locals, returned, restores, history>>

\* lines 177-208: the in-process tar implementation unpacks the entry buffer
RestoreExtract ==
  /\ pc = "extract"
  /\ UNCHANGED <<cacheId, hasCloud, cloudWriteAllowed, tarInstalled, tarUtility, localStore,
                 cloudStore, saves, saved, builds, besidesCache>>
  /\ LET buffer == IF locals.cacheEntryBuffer = NoBuffer /\ locals.localCacheEntryPath # NoEntry
                     THEN readFileToBufferAsync(locals.localCacheEntryPath)
                     ELSE locals.cacheEntryBuffer
         read == [locals EXCEPT !.cacheEntryBuffer = buffer]
     IN IF buffer = NoBuffer
          THEN /\ UNCHANGED outputFolders
               /\ Return("throw:Expected the cache entry buffer to be set.", read, log)
          ELSE \/ /\ buffer.kind = "archive"
                  /\ outputFolders' = Unpack(outputFolders, buffer)
                  /\ ReturnRestoreSuccess([read EXCEPT !.restoreSuccess = TRUE],
                                          Append(log, "js.untar:ok"))
               \/ /\ outputFolders' \in PartialUnpacks(outputFolders, buffer)
                  /\ ReturnRestoreSuccess([read EXCEPT !.restoreSuccess = FALSE],
                                          Append(log, "js.untar:throw"))

NextCache ==
  \/ RestoreBegin
  \/ RestoreQueryCloud
  \/ RestoreBackfill
  \/ RestorePurge
  \/ RestoreUntar
  \/ RestoreExtract

\* ---- trySetCacheEntryAsync ----

\* the trees a project may hold when its outputs are saved
InitialTrees ==
  {Tree(a, b, c) : a \in {"v1", "link"}, b \in {"absent", "v1", "link"},                    c \in {"absent", "v1", "link"}}

SaveInputs ==
  /\ cacheId \in {Undefined, Some("k1")}
  /\ hasCloud \in BOOLEAN
  /\ cloudWriteAllowed \in BOOLEAN
  /\ hasCloud = FALSE => cloudWriteAllowed = FALSE
  /\ tarInstalled \in BOOLEAN
  /\ tarUtility = "null"
  /\ localStore = [k \in CacheIds |-> NoBuffer]
  /\ cloudStore = [k \in CacheIds |-> NoBuffer]
  /\ outputFolders \in InitialTrees
  /\ pc = "ready"
  /\ locals = NoLocals
  /\ log = <<>>
  /\ returned = "none"
  /\ restores = 0
  /\ history = <<>>
  /\ saves = 0
  /\ saved = NoSave
  /\ builds = 0

\* trySetCacheEntryAsync returns (or throws): its caller sees `value`
SaveReturn(value, finalLocals, finalLog, reported) ==
  /\ returned' = value
  /\ locals' = finalLocals
  /\ log' = finalLog
  /\ saves' = saves + 1
  /\ saved' =
       [result |-> value,
        files |-> DeclaredFiles(outputFolders),
        hasSymlink |-> \E p \in Paths : /\ p[1] \in Range(OutputFolderNames)
                                        /\ outputFolders[p] = "link",
        reportedSymlinks |-> reported,
        log |-> finalLog,
        localEntry |-> IF cacheId.defined THEN localStore'[cacheId.value] ELSE NoBuffer,
        cloudEntry |-> IF cacheId.defined THEN cloudStore'[cacheId.value] ELSE NoBuffer]
  /\ pc' = "ready"

\* a cloud write made whenever a cloud provider is configured
CloudWriteWheneverConfigured == hasCloud

\* line 273: this._cloudBuildCacheProvider?.isCacheWriteAllowed === true
ShouldWriteCloud == hasCloud /\ cloudWriteAllowed

\* lines 273-286: with a writable cloud provider the buffer is read back from the
\* local entry just written (FileSystem.readFileToBufferAsync) if need be and the
\* cloud write is started; without a buffer and without an entry path the
\* assertion of line 278 throws
StartCloudWrite(l, logSoFar) ==
  IF ~ShouldWriteCloud
    THEN [thrown |-> FALSE, locals |-> l, log |-> logSoFar]
  ELSE IF l.cacheEntryBuffer = NoBuffer /\ l.localCacheEntryPath = NoEntry
    THEN [thrown |-> TRUE, locals |-> l, log |-> logSoFar]
  ELSE [thrown |-> FALSE,
        locals |-> [l EXCEPT !.cacheEntryBuffer =
                               IF l.cacheEntryBuffer = NoBuffer
                                 THEN localStore'[l.localCacheEntryPath]
                                 ELSE l.cacheEntryBuffer,
                             !.updateCloudCacheSuccess = "pending"],
        log |-> Append(logSoFar, "cloud.save:call")]

\* what the caller of trySetCacheEntryAsync sees once the cloud write is started
\* or the assertion has thrown
AfterStartCloudWrite(started) ==
  IF started.thrown
    THEN SaveReturn("throw:Expected the local cache entry path to be set.",
                    started.locals, started.log, {})
    ELSE /\ locals' = started.locals
         /\ log' = started.log
         /\ pc' = "writes"
         /\ UNCHANGED <<returned, saves, saved>>

\* lines 211-230: the cache id check, the enumeration of the output folders and
\* the tar utility lookup
SaveBegin ==
  /\ pc = "ready"
  /\ saves < MaxSaves
  /\ restores + saves < MaxRestores
  /\ UNCHANGED <<cacheId, hasCloud, cloudWriteAllowed, tarInstalled, localStore, cloudStore,
                 outputFolders, restores, history, builds, besidesCache>>
  /\ IF ~cacheId.defined
       THEN /\ SaveReturn(NoCacheIdResult, NoLocals, NoCacheIdLog, {})
            /\ UNCHANGED tarUtility
       ELSE LET filesToCache == _tryCollectPathsToCacheAsync(outputFolders)
            IN IF ~filesToCache.defined
                 THEN /\ SaveReturn("false", NoLocals,
                                    <<"error:Unable to include a symbolic link.">>,
                                    filesToCache.symlinks)
                      /\ UNCHANGED tarUtility
                 ELSE /\ locals' = [NoLocals EXCEPT
                                      !.outputFilePaths = filesToCache.outputFilePaths]
                      /\ log' = <<"verbose:Caching build output folders">>
                      /\ tarUtility' = TarUtilityAfterGet
                      /\ pc' = IF TarUtilityAfterGet = "tar" THEN "tarCreate" ELSE "jsCreate"
                      /\ UNCHANGED <<returned, saves, saved>>

\* lines 232-241: the tar binary is started on getCacheEntryPath(cacheId) and
\* begins to write the archive there
SaveTarCreate ==
  /\ pc = "tarCreate"
  /\ localStore' = [localStore EXCEPT ![cacheId.value] = Truncated]
  /\ log' = Append(log, "tar.create:start")
  /\ pc' = "tarExit"
  /\ UNCHANGED <<cacheId, hasCloud, cloudWriteAllowed, tarInstalled, tarUtility, cloudStore,
                 outputFolders, locals, returned, restores, history, saves, saved, builds,
                 besidesCache>>

\* lines 237-250 and 267-286: the exit of the tar binary; on exit code 0 the
\* entry path is the local result, otherwise the in-process tar takes over
SaveTarExit ==
  /\ pc = "tarExit"
  /\ \/ /\ localStore' = [localStore EXCEPT ![cacheId.value] =
                            Pack(outputFolders, locals.outputFilePaths)]
        /\ AfterStartCloudWrite(
             StartCloudWrite([locals EXCEPT !.localCacheEntryPath = cacheId.value,
                                            !.localCachePath = cacheId.value],
                             Append(log, "tar.create:0")))
     \/ /\ localStore' \in {localStore, [localStore EXCEPT ![cacheId.value] = NoBuffer]}
        /\ log' = log \o <<"tar.create:1", "warn:tar exited with a non-zero code">>
        /\ pc' = "jsCreate"
        /\ UNCHANGED <<locals, returned, saves, saved>>
  /\ UNCHANGED <<cacheId, hasCloud, cloudWriteAllowed, tarInstalled, tarUtility, cloudStore,
                 outputFolders, restores, history, builds, besidesCache>>

\* lines 252-286 and 389-399: the in-process tar packs the files into a buffer
\* (a stream error rejects), then the local write is started
SaveJsCreate ==
  /\ pc = "jsCreate"
  /\ UNCHANGED <<cacheId, hasCloud, cloudWriteAllowed, tarInstalled, tarUtility, localStore,
                 cloudStore, outputFolders, restores, history, builds, besidesCache>>
  /\ \/ AfterStartCloudWrite(
          StartCloudWrite([locals EXCEPT !.cacheEntryBuffer =
                                           Pack(outputFolders, locals.outputFilePaths),
                                         !.localCachePath = "pending"],
                          log \o <<"js.create:ok", "local.save:call">>))
     \/ SaveReturn("throw:tar stream error", locals, Append(log, "js.create:throw"), {})

\* lines 259-263: FileSystemBuildCacheProvider.trySetCacheEntryBufferAsync settles:
\* with the entry path, with no path, or rejected
SaveLocalSet ==
  /\ pc = "writes"
  /\ locals.localCachePath = "pending"
  /\ \/ /\ localStore' = LocalStoreAfterSet(cacheId.value, locals.cacheEntryBuffer)
        /\ locals' = [locals EXCEPT !.localCachePath = cacheId.value]
        /\ log' = Append(log, "local.save:ok")
     \/ /\ localStore' = localStore
        /\ locals' = [locals EXCEPT !.localCachePath = ""]
        /\ log' = Append(log, "local.save:none")
     \/ /\ localStore' = localStore
        /\ locals' = [locals EXCEPT !.localCachePath = "rejected"]
        /\ log' = Append(log, "local.save:throw")
  /\ UNCHANGED <<cacheId, hasCloud, cloudWriteAllowed, tarInstalled, tarUtility, cloudStore,
                 outputFolders, pc, returned, restores, history, saves, saved, builds, besidesCache>>

\* lines 280-284: the cloud provider's trySetCacheEntryBufferAsync settles
SaveCloudSet ==
  /\ pc = "writes"
  /\ locals.updateCloudCacheSuccess = "pending"
  /\ \/ /\ cloudStore' = [cloudStore EXCEPT ![cacheId.value] = locals.cacheEntryBuffer]
        /\ locals' = [locals EXCEPT !.updateCloudCacheSuccess = "true"]
        /\ log' = Append(log, "cloud.save:true")
     \/ /\ cloudStore' = cloudStore
        /\ locals' = [locals EXCEPT !.updateCloudCacheSuccess = "false"]
        /\ log' = Append(log, "cloud.save:false")
  /\ UNCHANGED <<cacheId, hasCloud, cloudWriteAllowed, tarInstalled, tarUtility, localStore,
                 outputFolders, pc, returned, restores, history, saves, saved, builds, besidesCache>>

\* a result that ignores the outcome of the cloud write
SuccessIgnoringCloud(l) == l.localCachePath # ""

\* lines 288-299: success = updateCloudCacheSuccess && !!localCachePath
SaveSuccess(l) == l.updateCloudCacheSuccess # "false" /\ l.localCachePath # ""

\* lines 288-312: both writes are awaited; the flag and its terminal line
SaveFinish ==
  /\ pc = "writes"
  /\ locals.localCachePath # "pending"
  /\ locals.updateCloudCacheSuccess # "pending"
  /\ UNCHANGED <<cacheId, hasCloud, cloudWriteAllowed, tarInstalled, tarUtility, localStore,
                 cloudStore, outputFolders, restores, history, builds, besidesCache>>
  /\ IF locals.localCachePath = "rejected"
       THEN SaveReturn("throw:local cache write failed", locals, log, {})
       ELSE SaveReturn(IF SaveSuccess(locals) THEN "true" ELSE "false", locals,
              Append(log,
                IF SaveSuccess(locals)
                  THEN "line:Successfully set cache entry."
                  ELSE IF locals.localCachePath = "" /\ locals.updateCloudCacheSuccess # "false"
                    THEN "warn:Unable to set local cache entry."
                    ELSE IF locals.localCachePath # ""
                      THEN "warn:Unable to set cloud cache entry."
                      ELSE "warn:Unable to set both cloud and local cache entries."),
              {})

\* the project is rebuilt after its outputs were saved: the outputs change
RebuildOutputs ==
  /\ pc = "ready"
  /\ builds < MaxBuilds
  /\ builds < saves
  /\ builds' = builds + 1
  /\ outputFolders' = StaleTree
  /\ UNCHANGED <<cacheId, hasCloud, cloudWriteAllowed, tarInstalled, tarUtility, localStore,
                 cloudStore, pc, locals, log, returned, restores, history, saves, saved, besidesCache>>

NextSave ==
  \/ SaveBegin
  \/ SaveTarCreate
  \/ SaveTarExit
  \/ SaveJsCreate
  \/ SaveLocalSet
  \/ SaveCloudSet
  \/ SaveFinish
  \/ RebuildOutputs
  \/ RestoreBegin
  \/ RestoreQueryCloud
  \/ RestoreBackfill
  \/ RestorePurge
  \/ RestoreUntar
  \/ RestoreExtract

----------------------------------------------------------------------------
(* IPCOperationRunner.executeAsync: a runner, the child processes it spawned *)
(* and its invocations, driven by the events of the child                   *)

\* the statuses a child reports in an after-execute message: Success and one
\* of the others
ChildStatuses == {"Success", "Failure"}

\* the code of an 'exit' event: "null" when a signal ended the child
ExitCodes == {"0", "1", "null"}

NewProcess == [state |-> "running", exitCode |-> "null", ready |-> FALSE]

\* a started invocation: its closure variables and the state of its promise
NewRun(p, spawned) ==
  [proc |-> p, spawned |-> spawned, phase |-> "awaiting", status |-> "pending",
   hasWarningOrError |-> FALSE, isConnected |-> FALSE, attached |-> TRUE,
   error |-> "none", sent |-> <<>>, result |-> "none",
   stderrSeen |-> FALSE, reported |-> "none", exitSeen |-> "none"]

\* the values a 'message' event can carry besides the three event messages of
\* the protocol: a number, null and an object with an unknown event name
OtherMessages ==
  {[typeof |-> "number", isNull |-> FALSE, event |-> "undefined"],
   [typeof |-> "object", isNull |-> TRUE, event |-> "undefined"],
   [typeof |-> "object", isNull |-> FALSE, event |-> "progress"]}

\* a test that takes null for a value without properties
IsEventOfObject(message, name) ==
  IF message.typeof = "object" /\ ~message.isNull /\ message.event = name
    THEN "true" ELSE "false"

\* lines 38-48: typeof message === 'object' && message.event === name; typeof
\* null is 'object', and reading a property of null throws a TypeError
IsEventMessage(message, name) ==
  IF message.typeof # "object" THEN "false"
  ELSE IF message.isNull THEN "TypeError"
  ELSE IF message.event = name THEN "true" ELSE "false"

isAfterExecuteEventMessage(message) == IsEventMessage(message, "after-execute")

isRequestRunEventMessage(message) == IsEventMessage(message, "requestRun")

isSyncEventMessage(message) == IsEventMessage(message, "sync")

\* this._ipcProcess: the process spawned last, 0 when there is none
CurrentProcess == Len(procs)

\* a reuse test that never finds a process to connect to
AlwaysSpawn == TRUE

\* a reuse test that connects only to a child that has sent its sync message
SpawnUnlessReady == CurrentProcess = 0 \/ ~procs[CurrentProcess].ready

\* line 83: !this._ipcProcess || typeof this._ipcProcess.exitCode === 'number'
MustSpawn == CurrentProcess = 0 \/ procs[CurrentProcess].exitCode # "null"

\* a returned status that leaves the child's Success as it is
StatusUnmixed(resolved, flag) == resolved

\* lines 184-186: Success becomes SuccessWithWarning when stderr output was seen
MixWarning(resolved, flag) ==
  IF resolved = "Success" /\ flag THEN "SuccessWithWarning" ELSE resolved

\* lines 166-173: the callback on _processReadyPromise sets isConnected and
\* sends the run command
Connect(r) == [r EXCEPT !.isConnected = TRUE, !.sent = Append(@, "run")]

\* lines 176-186: what follows the await of the status promise: the exit
\* command to a child that shows no exit code and the wait for its exit, or the
\* return of the status
Continue(r, exitCode) ==
  IF r.isConnected /\ ~persist /\ exitCode = "null"
    THEN [r EXCEPT !.phase = "awaitingExit", !.sent = Append(@, "exit")]
    ELSE [r EXCEPT !.phase = "returned",
                   !.result = MixWarning(r.status, r.hasWarningOrError)]

\* an exit handler that takes every exit for a clean one
OnExitIgnoringCode(r, code) ==
  IF r.status # "pending"
    THEN r
    ELSE [r EXCEPT !.status = IF r.hasWarningOrError THEN "SuccessWithWarning" ELSE "Success",
                   !.exitSeen = code]

\* lines 146-160: onExit(code)
OnExit(r, code) ==
  LET failed == code # "0"
      noted == [r EXCEPT !.error = IF failed THEN code ELSE @]
  IN IF r.status # "pending"
       THEN noted
       ELSE [noted EXCEPT !.status = IF failed THEN "Failure"
                                     ELSE IF r.hasWarningOrError THEN "SuccessWithWarning"
                                     ELSE "Success",
                          !.exitSeen = code]

\* a finishHandler that resolves and leaves the listeners of the invocation on
\* the child
FinishHandlerKeepingListeners(r, messageStatus) ==
  IF r.status # "pending"
    THEN r
    ELSE [r EXCEPT !.status = messageStatus, !.reported = messageStatus]

\* lines 132-144: finishHandler on an after-execute message
FinishHandler(r, messageStatus) ==
  LET detached == [r EXCEPT !.attached = FALSE]
  IN IF r.status # "pending"
       THEN detached
       ELSE [detached EXCEPT !.status = messageStatus, !.reported = messageStatus]

\* a ready test that does not wait for the sync message
ReadyAssumed(proc) == TRUE

\* lines 100-108 and 166: _processReadyPromise of the process is resolved,
\* which its first sync message does
ReadyPromiseResolved(proc) == proc.ready

IpcInputs ==
  /\ persist \in BOOLEAN
  /\ procs = <<>>
  /\ runs = <<>>
  /\ hookCalls = <<>>
  /\ uncaught = {}

\* the child p is running and can emit events to the listeners of the engine,
\* which an uncaught exception has not ended
Emits(p) == uncaught = {} /\ procs[p].state = "running"

\* lines 79-131 and 162-173: executeAsync spawns a child or connects to the
\* existing one, attaches its listeners and waits; on a child that is ready the
\* run command goes out at once
ExecuteAsync ==
  /\ uncaught = {}
  /\ Len(runs) < MaxRuns
  /\ procs' = IF MustSpawn THEN Append(procs, NewProcess) ELSE procs
  /\ LET p == Len(procs')
         r == NewRun(p, MustSpawn)
     IN runs' = Append(runs, IF ReadyPromiseResolved(procs'[p]) THEN Connect(r) ELSE r)
  /\ UNCHANGED <<persist, hookCalls, uncaught, besidesIpc>>

\* lines 104-110 and 166-173: the first sync message of a child resolves
\* _processReadyPromise, whose callbacks connect every invocation waiting on it
ChildSync(p) ==
  /\ Emits(p)
  /\ ~procs[p].ready
  /\ procs' = [procs EXCEPT ![p].ready = TRUE]
  /\ runs' = [i \in DOMAIN runs |->
                IF runs[i].proc = p /\ ~runs[i].isConnected
                  THEN Connect(runs[i]) ELSE runs[i]]
  /\ UNCHANGED <<persist, hookCalls, uncaught, besidesIpc>>

\* a listener that takes a requestRun message for the sync message as well
RequestRunMarkingReady(p, requestor) ==
  /\ Emits(p)
  /\ Len(hookCalls) < MaxRequests
  /\ hookCalls' = Append(hookCalls, requestor)
  /\ procs' = [procs EXCEPT ![p].ready = TRUE]
  /\ UNCHANGED <<persist, runs, uncaught, besidesIpc>>

\* lines 104-107: a requestRun message calls the hook with its requestor
ChildRequestRun(p, requestor) ==
  /\ Emits(p)
  /\ Len(hookCalls) < MaxRequests
  /\ hookCalls' = Append(hookCalls, requestor)
  /\ UNCHANGED <<persist, procs, runs, uncaught, besidesIpc>>

\* lines 121-125: stderr data reaches the invocations that listen to the child
ChildStderr(p) ==
  /\ Emits(p)
  /\ \E i \in DOMAIN runs : runs[i].proc = p /\ runs[i].phase = "awaiting"
  /\ runs' = [i \in DOMAIN runs |->
                IF runs[i].proc # p THEN runs[i]
                ELSE [runs[i] EXCEPT
                        !.hasWarningOrError = @ \/ runs[i].attached,
                        !.stderrSeen = @ \/ runs[i].phase = "awaiting"]]
  /\ UNCHANGED <<persist, procs, hookCalls, uncaught, besidesIpc>>

\* lines 132-144 and 176-186: an after-execute message reaches finishHandler of
\* every invocation still attached to the child
ChildAfterExecute(p, messageStatus) ==
  /\ Emits(p)
  /\ \E i \in DOMAIN runs : runs[i].proc = p /\ runs[i].attached
  /\ runs' = [i \in DOMAIN runs |->
                IF runs[i].proc = p /\ runs[i].attached
                  THEN (IF runs[i].phase = "awaiting"
                          THEN Continue(FinishHandler(runs[i], messageStatus), procs[p].exitCode)
                          ELSE FinishHandler(runs[i], messageStatus))
                  ELSE runs[i]]
  /\ UNCHANGED <<persist, procs, hookCalls, uncaught, besidesIpc>>

\* lines 146-160 and 176-186: the child exits; onExit of every attached
\* invocation runs, and an invocation that waits for the exit returns
ChildExit(p, code) ==
  /\ Emits(p)
  /\ procs' = [procs EXCEPT ![p].state = "exited", ![p].exitCode = code]
  /\ runs' = [i \in DOMAIN runs |->
                IF runs[i].proc # p THEN runs[i]
                ELSE IF runs[i].phase = "awaitingExit"
                  THEN [runs[i] EXCEPT
                          !.phase = "returned",
                          !.result = MixWarning(runs[i].status, runs[i].hasWarningOrError)]
                ELSE IF ~runs[i].attached THEN runs[i]
                ELSE IF runs[i].phase = "awaiting"
                  THEN Continue(OnExit(runs[i], code), code)
                  ELSE OnExit(runs[i], code)]
  /\ UNCHANGED <<persist, hookCalls, uncaught, besidesIpc>>

\* line 163: an 'error' event of the child rejects the pending promise of every
\* attached invocation, which throws out of executeAsync
ChildError(p) ==
  /\ Emits(p)
  /\ \E i \in DOMAIN runs : runs[i].proc = p /\ runs[i].attached /\ runs[i].phase = "awaiting"
  /\ runs' = [i \in DOMAIN runs |->
                IF runs[i].proc = p /\ runs[i].attached /\ runs[i].phase = "awaiting"
                  THEN [runs[i] EXCEPT !.phase = "threw", !.status = "rejected",
                                       !.result = "throw"]
                  ELSE runs[i]]
  /\ UNCHANGED <<persist, procs, hookCalls, uncaught, besidesIpc>>

\* lines 104-110 and 132-144: a message of another shape reaches the listener
\* added at spawn and then finishHandler of every attached invocation, in the
\* order they were added; a listener that throws ends the dispatch, and the
\* exception is uncaught: it ends the Node.js process of the engine
ChildMessage(p, message) ==
  /\ Emits(p)
  /\ LET thrown ==
           {isRequestRunEventMessage(message), isSyncEventMessage(message),
            isAfterExecuteEventMessage(message)} \ {"true", "false"}
     IN uncaught' = uncaught \cup thrown
  /\ UNCHANGED <<persist, procs, runs, hookCalls, besidesIpc>>

Sync == \E p \in DOMAIN procs : ChildSync(p)
Message == \E p \in DOMAIN procs : \E message \in OtherMessages : ChildMessage(p, message)
RequestRun == \E p \in DOMAIN procs : \E requestor \in {"watcher"} : ChildRequestRun(p, requestor)
Stderr == \E p \in DOMAIN procs : ChildStderr(p)
AfterExecute == \E p \in DOMAIN procs : \E s \in ChildStatuses : ChildAfterExecute(p, s)
Exit == \E p \in DOMAIN procs : \E code \in ExitCodes : ChildExit(p, code)
Error == \E p \in DOMAIN procs : ChildError(p)

NextIpc ==
  \/ ExecuteAsync
  \/ Sync
  \/ RequestRun
  \/ Message
  \/ Stderr
  \/ AfterExecute
  \/ Exit
  \/ Error

----------------------------------------------------------------------------
(* LoggingManager.requestScopedLogger: the registry of named loggers *)

LoggerNames == {"", "lint", "typescript"}

\* Map.get of a name that was never set
NoLogger == 0

\* a registration that replaces the logger a name is bound to
RequestReplacingLogger(loggerName) ==
  /\ Len(loggerRequests) < MaxLoggerRequests
  /\ LET scopedLogger == Len(loggerRequests) + 1
     IN /\ scopedLoggers' = [scopedLoggers EXCEPT ![loggerName] = scopedLogger]
        /\ loggerRequests' = Append(loggerRequests,
                                [loggerName |-> loggerName, result |-> "logger",
                                 scopedLogger |-> scopedLogger])
  /\ UNCHANGED besidesLog

\* lines 29-43: requestScopedLogger(loggerName) throws when the name is bound,
\* and otherwise binds it to a new ScopedLogger, which it returns; a logger is
\* identified by the number of the call that created it
requestScopedLogger(loggerName) ==
  /\ Len(loggerRequests) < MaxLoggerRequests
  /\ LET existingScopedLogger == scopedLoggers[loggerName]
         scopedLogger == Len(loggerRequests) + 1
     IN IF existingScopedLogger # NoLogger
          THEN /\ loggerRequests' = Append(loggerRequests,
                                       [loggerName |-> loggerName, result |-> "throw",
                                        scopedLogger |-> NoLogger])
               /\ UNCHANGED scopedLoggers
          ELSE /\ scopedLoggers' = [scopedLoggers EXCEPT ![loggerName] = scopedLogger]
               /\ loggerRequests' = Append(loggerRequests,
                                       [loggerName |-> loggerName, result |-> "logger",
                                        scopedLogger |-> scopedLogger])
  /\ UNCHANGED besidesLog

\* lines 13 and 21-23: a new manager has no loggers
LogInputs ==
  /\ scopedLoggers = [loggerName \in LoggerNames |-> NoLogger]
  /\ loggerRequests = <<>>

RequestScopedLogger == \E loggerName \in LoggerNames : requestScopedLogger(loggerName)

NextLog == RequestScopedLogger

----------------------------------------------------------------------------
(* ProjectBuildCache.tryGetProjectBuildCache and _validateProject.         *)
(* Paths are strings, written as sequences of character codes:             *)
(* "/" is 47, "\" is 92, "a" 97, "d" 100, "g" 103, "l" 108, "p" 112,     *)
(* "s" 115, "x" 120.                                                        *)

\* Path.convertToSlashes of node-core-library: every "\" becomes "/"
convertToSlashes(inputPath) ==
  [i \in 1..Len(inputPath) |-> IF inputPath[i] = 92 THEN 47 ELSE inputPath[i]]

\* String.prototype.startsWith
startsWith(str, searchString) ==
  /\ Len(str) >= Len(searchString)
  /\ SubSeq(str, 1, Len(searchString)) = searchString

\* line 88, had the template left out the closing "/"
OutputFolderWithoutClosingSlash(normalizedProjectRelativeFolder, outputFolderName) ==
  normalizedProjectRelativeFolder \o <<47>> \o outputFolderName

\* line 88: `${normalizedProjectRelativeFolder}/${outputFolderName}/`
OutputFolder(normalizedProjectRelativeFolder, outputFolderName) ==
  normalizedProjectRelativeFolder \o <<47>> \o outputFolderName \o <<47>>

\* lines 81-90: the output folders the tracked files are tested against
ValidatedOutputFolders(projectConfiguration) ==
  LET normalizedProjectRelativeFolder ==
        convertToSlashes(projectConfiguration.projectRelativeFolder)
      names == projectConfiguration.projectOutputFolderNames
  IN IF names.defined
       THEN [i \in 1..Len(names.value) |->
               OutputFolder(normalizedProjectRelativeFolder, names.value[i])]
       ELSE <<>>

\* lines 92-99: a tracked file is pushed once for every output folder it starts with
RECURSIVE InputOutputFiles(_, _)
InputOutputFiles(files, folders) ==
  IF files = <<>> THEN <<>>
  ELSE LET file == Head(files)
           matched == SelectSeq(folders, LAMBDA outputFolder : startsWith(file, outputFolder))
       IN [j \in 1..Len(matched) |-> file] \o InputOutputFiles(Tail(files), folders)

\* lines 76-109: the verdict and the warning lines written to the terminal
_validateProject(projectConfiguration, files) ==
  LET inputOutputFiles ==
        InputOutputFiles(files, ValidatedOutputFolders(projectConfiguration))
  IN IF Len(inputOutputFiles) > 0
       THEN [valid |-> FALSE,
             warnings |-> << <<"Unable to use build cache.", inputOutputFiles>> >>]
       ELSE [valid |-> TRUE, warnings |-> <<>>]

\* the project folders "p" and "g\p" (as a Windows rush.json may spell it)
ProjectRelativeFolders == {<<112>>, <<103, 92, 112>>}

\* tracked files "p/l/a", "p/s/a", "p/lx/a", "p/l", "g/p/l/a" and "g/p/d"
TrackedFilePool ==
  << <<112, 47, 108, 47, 97>>, <<112, 47, 115, 47, 97>>, <<112, 47, 108, 120, 47, 97>>,
     <<112, 47, 108>>, <<103, 47, 112, 47, 108, 47, 97>>, <<103, 47, 112, 47, 100>> >>

\* the files of the pool at the given positions, in the pool's order
RECURSIVE FilesAt(_, _)
FilesAt(positions, from) ==
  IF from > Len(TrackedFilePool) THEN <<>>
  ELSE (IF from \in positions THEN <<TrackedFilePool[from]>> ELSE <<>>)
         \o FilesAt(positions, from + 1)

TrackedFileLists == {FilesAt(S, 1) : S \in SUBSET (1..Len(TrackedFilePool))}

\* the folder lists undefined, [], ["l"], ["d", "l"] and ["s", "s"]
ValidatedFolderLists ==
  {Undefined, Some(<<>>), Some(<< <<108>> >>), Some(<< <<100>>, <<108>> >>),
   Some(<< <<115>>, <<115>> >>)}

\* a project without dependencies, its own state known or not
NoDependencies == [p \in Projects |-> <<>>]

StatesWithRoot(known) ==
  [p \in Projects |-> IF p = RootProject /\ ~known THEN Undefined ELSE Some(HashOf(p))]

BuildCacheOptions ==
  [trackedProjectFiles : {Undefined} \cup {Some(l) : l \in TrackedFileLists},
   projectRelativeFolder : ProjectRelativeFolders,
   projectOutputFolderNames : ValidatedFolderLists,
   dependencyProjects : {NoDependencies},
   projectStates : {StatesWithRoot(TRUE), StatesWithRoot(FALSE)},
   command : {<<120>>}]

UndefinedCache == [kind |-> "undefined", value |-> <<>>]

\* lines 46-52: the constructor stores the folder names and computes the cache id
NewProjectBuildCache(opts) ==
  LET id == _getCacheId(opts)
  IN IF id = ThrowResult THEN ThrowResult
     ELSE [kind |-> "instance",
           value |-> [_projectOutputFolderNames |->
                        IF opts.projectOutputFolderNames.defined
                          THEN opts.projectOutputFolderNames.value ELSE <<>>,
                      _cacheId |-> id]]

\* lines 63-74
tryGetProjectBuildCache(opts) ==
  /\ UNCHANGED <<buildCacheOptions, instanceCalls>>
  /\ IF ~opts.trackedProjectFiles.defined
       THEN /\ projectBuildCache' = UndefinedCache
            /\ terminalWarnings' = <<>>
       ELSE LET verdict == _validateProject(opts, opts.trackedProjectFiles.value)
            IN /\ terminalWarnings' = verdict.warnings
               /\ projectBuildCache' = IF ~verdict.valid THEN UndefinedCache
                                       ELSE NewProjectBuildCache(opts)
  /\ UNCHANGED besidesValidate

ValidateInputs ==
  /\ buildCacheOptions \in {Some(opts) : opts \in BuildCacheOptions}
  /\ projectBuildCache = NotComputed
  /\ terminalWarnings = <<>>
  /\ instanceCalls = <<>>

TryGetProjectBuildCache ==
  /\ projectBuildCache = NotComputed
  /\ tryGetProjectBuildCache(buildCacheOptions.value)

\* lines 111 and 211: tryRestoreFromCacheAsync and trySetCacheEntryAsync are
\* instance methods, and the constructor is private (line 46)
InstanceCall(method) ==
  /\ projectBuildCache.kind = "instance"
  /\ Len(instanceCalls) < MaxInstanceCalls
  /\ instanceCalls' = Append(instanceCalls, method)
  /\ UNCHANGED <<buildCacheOptions, projectBuildCache, terminalWarnings, besidesValidate>>

TryRestoreFromCache == InstanceCall("tryRestoreFromCacheAsync")

TrySetCacheEntry == InstanceCall("trySetCacheEntryAsync")

NextValidate == TryGetProjectBuildCache \/ TryRestoreFromCache \/ TrySetCacheEntry

----------------------------------------------------------------------------
(* The closure traversal of ProjectBuildCache._getCacheId (lines 415-441),  *)
(* one loop iteration per step, over dependency graphs that may hold cycles *)

\* declared dependencies of any project, itself included, in ascending order
RECURSIVE InAscendingOrder(_, _)
InAscendingOrder(S, from) ==
  IF from > MaxProjects THEN <<>>
  ELSE (IF from \in S THEN <<from>> ELSE <<>>) \o InAscendingOrder(S, from + 1)

CyclicDependencyGraphs == [Projects -> {InAscendingOrder(S, 1) : S \in SUBSET Projects}]

\* every project state known, or all but the last project's
TraversalStateMaps ==
  {[p \in Projects |-> IF p = unknown THEN Undefined ELSE Some(HashOf(p))] :
     unknown \in {0, MaxProjects}}

\* lines 415-418: the sets before the first test of the while loop
TraverseInputs ==
  /\ \E d \in CyclicDependencyGraphs, st \in TraversalStateMaps :
       traversalOptions = [dependencyProjects |-> d, projectStates |-> st,
                           command |-> <<120>>, projectOutputFolderNames |-> Some(<<>>)]
  /\ toProcess = <<RootProject>>
  /\ newToProcess = <<>>
  /\ position = 1
  /\ haveBeenProcessed = {}
  /\ statesPushed = <<>>
  /\ timesProcessed = [p \in Projects |-> 0]
  /\ traversalPc = "loop"

\* lines 422-438, had line 434 let every dependency into the next level
ProcessProjectRequeueing ==
  /\ traversalPc = "loop"
  /\ position <= Len(toProcess)
  /\ LET projectToProcess == toProcess[position]
         projectState == getProjectStateHash(traversalOptions, projectToProcess)
     IN /\ haveBeenProcessed' = haveBeenProcessed \cup {projectToProcess}
        /\ timesProcessed' = [timesProcessed EXCEPT ![projectToProcess] = @ + 1]
        /\ IF ~projectState.defined \/ projectState.value = <<>>
             THEN /\ traversalPc' = "undefined"
                  /\ UNCHANGED <<statesPushed, newToProcess, position>>
             ELSE /\ statesPushed' = Append(statesPushed, projectState.value)
                  /\ newToProcess' =
                       AddUnprocessed(newToProcess,
                                      traversalOptions.dependencyProjects[projectToProcess],
                                      {})
                  /\ position' = position + 1
                  /\ UNCHANGED traversalPc
  /\ UNCHANGED <<traversalOptions, toProcess, besidesTraverse>>

\* lines 422-438: one iteration of the for-of loop
ProcessProject ==
  /\ traversalPc = "loop"
  /\ position <= Len(toProcess)
  /\ LET projectToProcess == toProcess[position]
         projectState == getProjectStateHash(traversalOptions, projectToProcess)
     IN /\ haveBeenProcessed' = haveBeenProcessed \cup {projectToProcess}
        /\ timesProcessed' = [timesProcessed EXCEPT ![projectToProcess] = @ + 1]
        /\ IF ~projectState.defined \/ projectState.value = <<>>
             THEN /\ traversalPc' = "undefined"
                  /\ UNCHANGED <<statesPushed, newToProcess, position>>
             ELSE /\ statesPushed' = Append(statesPushed, projectState.value)
                  /\ newToProcess' =
                       AddUnprocessed(newToProcess,
                                      traversalOptions.dependencyProjects[projectToProcess],
                                      haveBeenProcessed')
                  /\ position' = position + 1
                  /\ UNCHANGED traversalPc
  /\ UNCHANGED <<traversalOptions, toProcess, besidesTraverse>>

\* line 441: the for-of loop is through, the next level becomes the current one
EndOfLevel ==
  /\ traversalPc = "loop"
  /\ Len(toProcess) > 0
  /\ position > Len(toProcess)
  /\ toProcess' = newToProcess
  /\ newToProcess' = <<>>
  /\ position' = 1
  /\ UNCHANGED <<traversalOptions, haveBeenProcessed, statesPushed, timesProcessed,
                 traversalPc, besidesTraverse>>

\* line 420: projectsToProcess.size is 0 and the while loop is left
LeaveLoop ==
  /\ traversalPc = "loop"
  /\ Len(toProcess) = 0
  /\ traversalPc' = "sort"
  /\ UNCHANGED <<traversalOptions, toProcess, newToProcess, position, haveBeenProcessed,
                 statesPushed, timesProcessed, besidesTraverse>>

NextTraverse == ProcessProject \/ EndOfLevel \/ LeaveLoop

----------------------------------------------------------------------------
(* makeRequestAsync of WebClient.ts (lines 67-134) *)

Urls == {"u1", "u2"}

NoLocation == "none"

\* what a server answers for a url: other statuses carry no Location header
ServerResponses ==
  {[statusCode |-> s, location |-> NoLocation] : s \in {200, 404, 301, 302}}
    \cup {[statusCode |-> s, location |-> l] : s \in {301, 302}, l \in Urls}

\* line 33
RedirectOptions == {"follow", "error", "manual", "undefined"}

PendingPromise == [kind |-> "pending", status |-> 0, redirected |-> FALSE, from |-> 0,
                   error |-> ""]

\* lines 108-119: the IWebClientResponse built from the response of request `i`
ResponseResult(reqs, i) ==
  [kind |-> "resolved", status |-> server[reqs[i].url].statusCode,
   redirected |-> reqs[i].redirected, from |-> i, error |-> ""]

Rejection(i, message) ==
  [kind |-> "rejected", status |-> 0, redirected |-> FALSE, from |-> i, error |-> message]

\* lines 67-79 and 122-132: a call of makeRequestAsync sends its request; `parent`
\* is the call whose resolve and reject are chained to this one (line 93), or 0
NewRequest(url, redirected, parent) ==
  [url |-> url, redirected |-> redirected, parent |-> parent, phase |-> "sent",
   promise |-> PendingPromise]

\* resolve or reject of the promise of request `i`: the first call settles it, and
\* the then/catch callbacks of line 93 hand the outcome to the parent's resolve
\* or reject
RECURSIVE Settle(_, _, _)
Settle(reqs, i, outcome) ==
  IF reqs[i].promise.kind # "pending" THEN reqs
  ELSE LET now == [reqs EXCEPT ![i].promise = outcome]
       IN IF reqs[i].parent = 0 THEN now
          ELSE Settle(now, reqs[i].parent, outcome)

\* lines 84-120: the listener of the response's 'end' event
OnResponseEnd(reqs, i) ==
  LET response == server[reqs[i].url]
      ended == [reqs EXCEPT ![i].phase = "ended"]
  IN IF response.statusCode \in {301, 302} /\ redirect = "follow"
       THEN IF response.location # NoLocation
              \* line 93, then break (line 100) and lines 106-120
              THEN Settle(Append(ended, NewRequest(response.location, TRUE, i)),
                          i, ResponseResult(reqs, i))
              \* lines 95-97, then break and lines 106-120
              ELSE Settle(Settle(ended, i, Rejection(i, "no location header")),
                          i, ResponseResult(reqs, i))
     ELSE IF response.statusCode \in {301, 302} /\ redirect = "error"
       THEN Settle(ended, i, Rejection(i, "status code"))      \* lines 102-104
     ELSE Settle(ended, i, ResponseResult(reqs, i))             \* lines 106-120

WebInputs ==
  /\ redirect \in RedirectOptions
  /\ server \in [Urls -> ServerResponses]
  /\ webRequests = <<>>

\* WebClient.fetchAsync, line 229: a request made by a caller
Fetch ==
  \E url \in Urls :
    /\ Len(webRequests) < MaxWebRequests
    /\ webRequests' = Append(webRequests, NewRequest(url, FALSE, 0))
    /\ UNCHANGED <<redirect, server, besidesWeb>>

\* the response of a request has been read to its end
ResponseEnd ==
  \E i \in 1..Len(webRequests) :
    /\ webRequests[i].phase = "sent"
    /\ Len(OnResponseEnd(webRequests, i)) <= MaxWebRequests
    /\ webRequests' = OnResponseEnd(webRequests, i)
    /\ UNCHANGED <<redirect, server, besidesWeb>>

\* lines 122-130: the request or its socket emits 'error' before any response
RequestError ==
  \E i \in 1..Len(webRequests) :
    /\ webRequests[i].phase = "sent"
    /\ webRequests' = Settle([webRequests EXCEPT ![i].phase = "failed"], i,
                             Rejection(i, "request error"))
    /\ UNCHANGED <<redirect, server, besidesWeb>>

NextWeb == Fetch \/ ResponseEnd \/ RequestError

----------------------------------------------------------------------------
(* updateAssetHashes of trueHashes.ts (lines 45-277). Chunks are numbered  *)
(* in the order of compilation.chunks; none of them is localized.          *)

Chunks == 1..MaxChunks

\* a chunk of the compilation: chunk.hasRuntime(), chunk.getAllAsyncChunks()
\* (read for runtime chunks only), chunk.renderedHash and whether chunk.files
\* holds a .js asset
ChunkShapes ==
  [hasRuntime : {FALSE}, asyncChunks : {{}}, renderedHash : BOOLEAN, jsAsset : BOOLEAN]
    \cup [hasRuntime : {TRUE}, asyncChunks : SUBSET Chunks, renderedHash : BOOLEAN,
          jsAsset : BOOLEAN]

\* compilations where at most one chunk lacks a rendered hash and at most one a
\* .js asset, and no chunk is its own async chunk
Compilations ==
  {comp \in [Chunks -> ChunkShapes] :
     /\ \A ch \in Chunks : ch \notin comp[ch].asyncChunks
     /\ Cardinality({ch \in Chunks : ~comp[ch].renderedHash}) <= 1
     /\ Cardinality({ch \in Chunks : ~comp[ch].jsAsset}) <= 1}

\* lines 66-69: dependenciesByChunk.get(chunk)
DependenciesOf(comp, ch) == IF comp[ch].hasRuntime THEN comp[ch].asyncChunks ELSE {}

\* lines 71-77: dependentsByChunk.get(chunk)
DependentsOf(comp, ch) == {other \in Chunks : ch \in DependenciesOf(comp, other)}

WebpackError(message, ch) == [message |-> message, chunk |-> ch]

\* the elements of a set of chunks in the order of compilation.chunks
RECURSIVE InChunkOrder(_, _)
InChunkOrder(S, from) ==
  IF from > MaxChunks THEN <<>>
  ELSE (IF from \in S THEN <<from>> ELSE <<>>) \o InChunkOrder(S, from + 1)

\* lines 129-137: an error for every dependency without a recorded replacement
MissingReplacementErrors(missing) ==
  [i \in 1..Len(InChunkOrder(missing, 1)) |->
     WebpackError("Could not find hash replacements for chunk", InChunkOrder(missing, 1)[i])]

\* lines 52-84: the maps and sets before the first test of the while loop
HashInputs ==
  /\ compilation \in Compilations
  /\ unprocessedDependenciesByChunk = [ch \in Chunks |-> DependenciesOf(compilation, ch)]
  /\ unprocessedChunks = Chunks
  /\ hashReplacementsByChunk = {}
  /\ previousSize = -1
  /\ cursor = 1
  /\ compilationErrors = <<>>
  /\ processedChunks = <<>>
  /\ hashPc = "while"

\* lines 85-97: the test of the while loop and the cycle check
WhileTest ==
  /\ hashPc = "while"
  /\ LET currentSize == Cardinality(unprocessedChunks)
     IN IF currentSize = 0
          THEN /\ hashPc' = "done"
               /\ UNCHANGED <<previousSize, cursor, compilationErrors>>
          ELSE IF currentSize = previousSize
            THEN /\ compilationErrors' =
                      Append(compilationErrors,
                             WebpackError("Detected a cycle in the chunk dependencies", 0))
                 /\ hashPc' = "done"
                 /\ UNCHANGED <<previousSize, cursor>>
            ELSE /\ previousSize' = currentSize
                 /\ cursor' = 1
                 /\ hashPc' = "for"
                 /\ UNCHANGED compilationErrors
  /\ UNCHANGED <<compilation, unprocessedDependenciesByChunk, unprocessedChunks,
                 hashReplacementsByChunk, processedChunks, besidesHashes>>

\* the unprocessed chunks the for-of loop has still to visit
ToVisit == {ch \in unprocessedChunks : ch >= cursor}

\* lines 99-274: one iteration of the for-of loop over unprocessedChunks
VisitChunk ==
  /\ hashPc = "for"
  /\ ToVisit # {}
  /\ LET ch == CHOOSE c \in ToVisit : \A other \in ToVisit : c <= other
         missing == DependenciesOf(compilation, ch) \ hashReplacementsByChunk
     IN /\ cursor' = ch + 1
        /\ IF unprocessedDependenciesByChunk[ch] # {}
             THEN UNCHANGED <<unprocessedDependenciesByChunk, unprocessedChunks,
                              hashReplacementsByChunk, compilationErrors, processedChunks>>
           ELSE IF ~compilation[ch].renderedHash
             \* lines 102-105: the chunk stays in unprocessedChunks
             THEN /\ compilationErrors' =
                       Append(compilationErrors,
                              WebpackError("Could not find the hash for chunk", ch))
                  /\ UNCHANGED <<unprocessedDependenciesByChunk, unprocessedChunks,
                                 hashReplacementsByChunk, processedChunks>>
           ELSE /\ IF compilation[ch].jsAsset
                     \* lines 256-257: processChunkAsset, then the replacement is recorded
                     THEN /\ compilationErrors' =
                               compilationErrors \o MissingReplacementErrors(missing)
                          /\ hashReplacementsByChunk' = hashReplacementsByChunk \cup {ch}
                     \* lines 251-254
                     ELSE /\ compilationErrors' =
                               Append(compilationErrors,
                                      WebpackError("Could not find a .js asset for chunk", ch))
                          /\ UNCHANGED hashReplacementsByChunk
                \* lines 266-272
                /\ unprocessedChunks' = unprocessedChunks \ {ch}
                /\ unprocessedDependenciesByChunk' =
                     [other \in Chunks |->
                        IF other \in DependentsOf(compilation, ch)
                          THEN unprocessedDependenciesByChunk[other] \ {ch}
                          ELSE unprocessedDependenciesByChunk[other]]
                /\ processedChunks' =
                     Append(processedChunks,
                            [chunk |-> ch,
                             unprocessed |-> DependenciesOf(compilation, ch)
                                               \cap unprocessedChunks,
                             missing |-> missing])
  /\ UNCHANGED <<compilation, previousSize, hashPc, besidesHashes>>

\* line 99: the for-of loop has visited every chunk left in unprocessedChunks
EndOfPass ==
  /\ hashPc = "for"
  /\ ToVisit = {}
  /\ hashPc' = "while"
  /\ UNCHANGED <<compilation, unprocessedDependenciesByChunk, unprocessedChunks,
                 hashReplacementsByChunk, previousSize, cursor, compilationErrors,
                 processedChunks, besidesHashes>>

NextHashes == WhileTest \/ VisitChunk \/ EndOfPass

----------------------------------------------------------------------------
(* The values the variables of a component hold while another is checked *)

IdleKey ==
  /\ options = Undefined
  /\ cacheIdResult = NotComputed
  /\ prevOptions = Undefined
  /\ prevResult = NotComputed
  /\ lastChange = "idle"

IdleExec ==
  /\ dependencies = <<>>
  /\ concurrency = 1
  /\ status = <<>>
  /\ unresolved = <<>>
  /\ invoked = <<>>
  /\ everQueued = <<>>
  /\ settled = <<>>

IdleCache ==
  /\ cacheId = Undefined
  /\ hasCloud = FALSE
  /\ cloudWriteAllowed = FALSE
  /\ tarUtility = "null"
  /\ tarInstalled = FALSE
  /\ localStore = <<>>
  /\ cloudStore = <<>>
  /\ outputFolders = "idle"
  /\ pc = "idle"
  /\ locals = <<>>
  /\ log = <<>>
  /\ returned = "none"
  /\ restores = 0
  /\ history = <<>>
  /\ saves = 0
  /\ saved = NoSave
  /\ builds = 0

IdleIpc ==
  /\ persist = FALSE
  /\ procs = <<>>
  /\ runs = <<>>
  /\ hookCalls = <<>>
  /\ uncaught = {}

IdleLog ==
  /\ scopedLoggers = <<>>
  /\ loggerRequests = <<>>

IdleValidate ==
  /\ buildCacheOptions = Undefined
  /\ projectBuildCache = NotComputed
  /\ terminalWarnings = <<>>
  /\ instanceCalls = <<>>

IdleTraverse ==
  /\ traversalOptions = Undefined
  /\ toProcess = <<>>
  /\ newToProcess = <<>>
  /\ position = 1
  /\ haveBeenProcessed = {}
  /\ statesPushed = <<>>
  /\ timesProcessed = <<>>
  /\ traversalPc = "idle"

IdleWeb ==
  /\ redirect = "undefined"
  /\ server = <<>>
  /\ webRequests = <<>>

IdleHashes ==
  /\ compilation = <<>>
  /\ unprocessedDependenciesByChunk = <<>>
  /\ unprocessedChunks = {}
  /\ hashReplacementsByChunk = {}
  /\ previousSize = -1
  /\ cursor = 1
  /\ compilationErrors = <<>>
  /\ processedChunks = <<>>
  /\ hashPc = "idle"

InitKey ==
  KeyInputs /\ IdleExec /\ IdleCache /\ IdleIpc /\ IdleLog /\ IdleValidate
    /\ IdleTraverse /\ IdleWeb /\ IdleHashes

InitExec ==
  ExecInputs /\ IdleKey /\ IdleCache /\ IdleIpc /\ IdleLog /\ IdleValidate
    /\ IdleTraverse /\ IdleWeb /\ IdleHashes

InitCache ==
  CacheInputs /\ IdleKey /\ IdleExec /\ IdleIpc /\ IdleLog /\ IdleValidate
    /\ IdleTraverse /\ IdleWeb /\ IdleHashes

SpecCache == InitCache /\ [][NextCache]_vars

InitSave ==
  SaveInputs /\ IdleKey /\ IdleExec /\ IdleIpc /\ IdleLog /\ IdleValidate
    /\ IdleTraverse /\ IdleWeb /\ IdleHashes

InitIpc ==
  IpcInputs /\ IdleKey /\ IdleExec /\ IdleCache /\ IdleLog /\ IdleValidate
    /\ IdleTraverse /\ IdleWeb /\ IdleHashes

InitLog ==
  LogInputs /\ IdleKey /\ IdleExec /\ IdleCache /\ IdleIpc /\ IdleValidate
    /\ IdleTraverse /\ IdleWeb /\ IdleHashes

SpecLog == InitLog /\ [][NextLog]_vars

InitValidate ==
  ValidateInputs /\ IdleKey /\ IdleExec /\ IdleCache /\ IdleIpc /\ IdleLog
    /\ IdleTraverse /\ IdleWeb /\ IdleHashes

SpecValidate == InitValidate /\ [][NextValidate]_vars

InitTraverse ==
  TraverseInputs /\ IdleKey /\ IdleExec /\ IdleCache /\ IdleIpc /\ IdleLog
    /\ IdleValidate /\ IdleWeb /\ IdleHashes

InitWeb ==
  WebInputs /\ IdleKey /\ IdleExec /\ IdleCache /\ IdleIpc /\ IdleLog /\ IdleValidate
    /\ IdleTraverse /\ IdleHashes

SpecWeb == InitWeb /\ [][NextWeb]_vars

InitHashes ==
  HashInputs /\ IdleKey /\ IdleExec /\ IdleCache /\ IdleIpc /\ IdleLog /\ IdleValidate
    /\ IdleTraverse /\ IdleWeb

SpecHashes == InitHashes /\ [][NextHashes]_vars

\* updateAssetHashes is synchronous: its loops keep running
SpecHashesFair == SpecHashes /\ WF_vars(NextHashes)

SpecTraverse == InitTraverse /\ [][NextTraverse]_vars

\* the loops of _getCacheId run without waiting: no await, no callback
SpecTraverseFair == SpecTraverse /\ WF_vars(NextTraverse)

SpecIpc == InitIpc /\ [][NextIpc]_vars

SpecSave == InitSave /\ [][NextSave]_vars

SpecExec == InitExec /\ [][NextExec]_vars

\* every runner invocation terminates and an idle worker takes the next operation
SpecExecFair == SpecExec /\ WF_vars(NextExec)

SpecKey == InitKey /\ [][NextKey]_vars

----------------------------------------------------------------------------
(* Properties of the cache key *)

\* the transitive dependency closure of the root project, itself included
RECURSIVE ReachableFrom(_, _)
ReachableFrom(opts, seen) ==
  LET more == seen \cup UNION {Range(opts.dependencyProjects[p]) : p \in seen}
  IN IF more = seen THEN seen ELSE ReachableFrom(opts, more)

Closure(opts) == ReachableFrom(opts, {RootProject})

KeyComputed == lastChange \notin {"init", "idle"}

\* C5: the cache key is the same for every iteration order of every project's
\* declared dependencies, all other inputs fixed.
C5_KeyInvariantUnderReordering ==
  lastChange = "order" => cacheIdResult = prevResult

\* C6: key computation returns undefined exactly when some project of the
\* transitive dependency closure (the project itself included) has no state
\* fingerprint; it never throws, and returns a key whenever every closure project
\* has a fingerprint.
C6_AbsentIffFingerprintMissing ==
  KeyComputed =>
    LET missing == \E p \in Closure(options) : ~options.projectStates[p].defined
    IN /\ missing <=> cacheIdResult.kind = "undefined"
       /\ ~missing <=> cacheIdResult.kind = "id"

\* the projects whose fingerprint differs between two options
ChangedProjects(a, b) == {p \in Projects : a.projectStates[p] # b.projectStates[p]}

\* the bytes that were hashed into a cache id
HashedBytes(result) == result.value[2][2]

\* the fingerprints of a bag of projects as the unique ascending sequence
RECURSIVE Ascending(_, _)
Ascending(opts, count) ==
  LET left == {p \in Projects : count[p] > 0}
  IN IF left = {} THEN <<>>
     ELSE LET least == CHOOSE p \in left : \A q \in left :
                         ~StringLess(opts.projectStates[q].value, opts.projectStates[p].value)
          IN <<opts.projectStates[least].value>>
             \o Ascending(opts, [count EXCEPT ![least] = count[least] - 1])

\* C7: with the hash injective, the key changes when the fingerprint of exactly one
\* project of the transitive closure changes, when the command changes and when the
\* output folder list changes; the hashed bytes are the JSON of the output folders,
\* the delimiter, the command, the delimiter, then the closure's fingerprints in
\* ascending order, each followed by the delimiter (a fingerprint the traversal
\* collected twice stands twice).
C7_KeySensitiveAndOrdered ==
  /\ (/\ cacheIdResult.kind = "id"
      /\ prevResult.kind = "id"
      /\ \/ lastChange \in {"command", "folders"}
         \/ /\ lastChange = "state"
            /\ ChangedProjects(options, prevOptions) \subseteq Closure(options))
     => cacheIdResult # prevResult
  /\ cacheIdResult.kind = "id" =>
       \E twice \in SUBSET Closure(options) :
         HashedBytes(cacheIdResult) =
           JsonStringify(options.projectOutputFolderNames).value \o hashDelimiter
             \o options.command \o hashDelimiter
             \o HashProjectStates(Ascending(options,
                   [p \in Projects |-> IF p \in twice THEN 2
                                       ELSE IF p \in Closure(options) THEN 1 ELSE 0]))

\* a key was recomputed after one fingerprint of a three-project closure changed,
\* and the fingerprints were collected in an order that is not ascending
C7_Witness ==
  /\ lastChange = "state"
  /\ cacheIdResult.kind = "id"
  /\ prevResult.kind = "id"
  /\ Closure(options) = Projects
  /\ ChangedProjects(options, prevOptions) # {}
  /\ StringLess(options.projectStates[2].value, options.projectStates[1].value)

\* C29: the closure traversal deduplicates visited projects: for every
\* dependency graph each project of the transitive closure contributes its
\* fingerprint to the hashed list exactly once.
C29_EachClosureProjectOnce ==
  cacheIdResult.kind = "id" =>
    HashedBytes(cacheIdResult) =
      JsonStringify(options.projectOutputFolderNames).value \o hashDelimiter
        \o options.command \o hashDelimiter
        \o HashProjectStates(Ascending(options,
              [p \in Projects |-> IF p \in Closure(options) THEN 1 ELSE 0]))

----------------------------------------------------------------------------
(* Properties of the executor *)

\* the operations o depends on, directly or transitively
RECURSIVE DependencyClosure(_)
DependencyClosure(of) ==
  LET more == of \cup UNION {dependencies[o] : o \in of}
  IN IF more = of THEN of ELSE DependencyClosure(more)

DependsOn(b, a) == a \in DependencyClosure(dependencies[b])

AllTerminal == \A o \in Operations : status[o] \in Terminal

\* C1: every operation that depends, directly or transitively, on an operation
\* that ended Failure or Blocked is Blocked, was never queued and its runner was
\* never invoked.
C1_DependentsOfFailureBlocked ==
  \A a, b \in Operations :
    (DependsOn(b, a) /\ status[a] \in {"Failure", "Blocked"})
      => (status[b] = "Blocked" /\ ~everQueued[b] /\ invoked[b] = 0)

\* an operation failed and a dependent that depends on it only through another
\* operation is Blocked
C1_Witness ==
  \E a, b, c \in Operations :
    /\ a \in dependencies[b] /\ b \in dependencies[c] /\ a \notin dependencies[c]
    /\ status[a] = "Failure" /\ status[b] = "Blocked" /\ status[c] = "Blocked"

\* C2: an operation is Ready, Queued or Executing (or has run) only when every
\* one of its dependencies has a terminal success-like status.
C2_StartsOnlyAfterDependencies ==
  \A o \in Operations :
    (status[o] \in {"Ready", "Queued", "Executing"} \/ invoked[o] > 0 \/ everQueued[o])
      => \A d \in dependencies[o] : status[d] \in SuccessLike

\* an operation with two dependencies is executing, both ended success-like
C2_Witness ==
  \E o \in Operations :
    /\ status[o] = "Executing"
    /\ Cardinality(dependencies[o]) = 2
    /\ \E d \in dependencies[o] : status[d] = "Skipped"

\* C3: execute terminates and every operation reaches a terminal status exactly
\* once: eventually all are terminal, a terminal status is never overwritten,
\* no operation is settled twice and no runner is invoked twice.
C3_TerminatesEachSettledOnce ==
  /\ <>[](AllTerminal /\ \A o \in Operations : settled[o] = 1)
  /\ [][\A o \in Operations :
          /\ status[o] \in Terminal => status'[o] = status[o]
          /\ settled'[o] <= 1
          /\ invoked'[o] <= 1]_vars

\* an execution ended with a failed operation, a blocked one and a successful one
C3_Witness ==
  /\ AllTerminal
  /\ \E a, b, c \in Operations :
       status[a] = "Failure" /\ status[b] = "Blocked" /\ status[c] = "Success"
  /\ \A o \in Operations : settled[o] = 1

\* C4: at most `concurrency` operations are Executing at any time.
C4_ConcurrencyBound ==
  Cardinality({o \in Operations : status[o] = "Executing"}) <= concurrency

\* the limit is reached while a further eligible operation waits for a worker
C4_Witness ==
  /\ Cardinality({o \in Operations : status[o] = "Executing"}) = concurrency
  /\ \E o \in Operations : status[o] = "Ready"

----------------------------------------------------------------------------
(* Properties of the cache restore *)

InLog(event) == \E i \in 1..Len(log) : log[i] = event

CloudGetEvents == {"cloud.get:hit", "cloud.get:miss"}

\* C8: the local tier is queried first; the cloud tier is queried only after a
\* local miss and only if a cloud provider is configured; after a local hit the
\* cloud provider is not contacted.
C8_LocalFirstCloudOnlyAfterMiss ==
  /\ \A i \in 1..Len(log) :
       log[i] \in CloudGetEvents \cup {"local.set:ok", "local.set:throw"} =>
         /\ hasCloud
         /\ i > 1
         /\ log[1] = "local.get:miss"
  /\ InLog("local.get:hit") => \A i \in 1..Len(log) : log[i] \notin CloudGetEvents
  /\ pc \in {"cloudGet", "backfill"} => log[1] = "local.get:miss"
  /\ \A i \in 1..Len(history) : history[i].localHit => ~history[i].cloudQueried

\* a local hit while the configured cloud tier holds the entry too: the restore
\* goes on without a cloud query
C8_Witness ==
  /\ pc = "purge"
  /\ log = <<"local.get:hit">>
  /\ hasCloud
  /\ cloudStore[cacheId.value] # NoBuffer

\* C9: after a restore that missed locally, hit in the cloud and updated the
\* local tier, the local tier holds the cloud's blob under the same id, and the
\* next restore hits locally without querying the cloud.
C9_CloudHitBackfillsLocal ==
  /\ locals.updateLocalCacheSuccess = "true" =>
       /\ localStore[cacheId.value] = cloudStore[cacheId.value]
       /\ tryGetCacheEntryPathByIdAsync(cacheId.value) = cacheId.value
  /\ \A i \in 1..Len(history) :
       (~history[i].localHit /\ history[i].cloudHit /\ history[i].backfill = "true") =>
         /\ localStore[cacheId.value] = cloudStore[cacheId.value]
         /\ i < Len(history) =>
              history[i + 1].localHit /\ ~history[i + 1].cloudQueried
         /\ (i = Len(history) /\ pc # "ready") =>
              /\ log[1] = "local.get:hit"
              /\ \A j \in 1..Len(log) : log[j] \notin CloudGetEvents

\* a cloud hit with a backfill, followed by a second restore served locally
C9_Witness ==
  /\ Len(history) = 2
  /\ ~history[1].localHit /\ history[1].cloudHit /\ history[1].backfill = "true"
  /\ history[2].localHit /\ history[2].result = "true"

\* C10: when the backfill fails after a cloud hit, the restore goes on from the
\* cloud blob in memory: it returns true exactly when the unpacking succeeds,
\* never throws, and the failure shows only as a warning.
C10_BackfillFailureOnlyWarns ==
  (pc = "ready" /\ restores > 0 /\ locals.updateLocalCacheSuccess = "false") =>
    /\ returned \in {"true", "false"}
    /\ returned = "true" <=> InLog("js.untar:ok")
    /\ returned = "false" <=> InLog("js.untar:throw")
    /\ returned = "true" => DeclaredFiles(outputFolders) = cloudStore[cacheId.value].files
    /\ InLog("warn:Unable to update the local build cache with data from the cloud cache.")

\* a restore returned true although its backfill failed
C10_Witness ==
  /\ pc = "ready"
  /\ locals.updateLocalCacheSuccess = "false"
  /\ returned = "true"
  /\ DeclaredFiles(outputFolders) = cloudStore[cacheId.value].files

----------------------------------------------------------------------------
(* Properties of trySetCacheEntryAsync *)

InSaved(event) == \E i \in 1..Len(saved.log) : saved.log[i] = event

\* the last finished call is trySetCacheEntryAsync
SaveFinished == pc = "ready" /\ saves > 0 /\ returned = saved.result /\ log = saved.log

\* the save got past the enumeration of the output folders
EnumerationSucceeded == InSaved("verbose:Caching build output folders")

\* the tar binary was started on the entry path, or the provider was called
LocalWriteAttempted == InSaved("tar.create:start") \/ InSaved("local.save:call")

CloudWriteAttempted == InSaved("cloud.save:call")

\* C11: on every save whose file enumeration succeeds a write to the local tier
\* is attempted, and a write to the cloud tier is attempted if and only if a
\* cloud provider is configured and its isCacheWriteAllowed flag is true; a
\* read-only or absent cloud provider never receives a write.
C11_LocalAlwaysCloudIffWritable ==
  /\ (SaveFinished /\ EnumerationSucceeded) =>
       /\ LocalWriteAttempted
       /\ CloudWriteAttempted <=> (hasCloud /\ cloudWriteAllowed)
  /\ ~(hasCloud /\ cloudWriteAllowed) =>
       /\ ~CloudWriteAttempted
       /\ \A k \in CacheIds : cloudStore[k] = NoBuffer

\* the local write produced an entry: tar exited with 0 or the provider wrote it
LocalWriteProduced == InSaved("tar.create:0") \/ InSaved("local.save:ok")

SaveThrew == saved.result \notin {"true", "false"}

\* C12: a cloud-write failure and a local-write failure are reported
\* independently and neither surfaces as an error: trySetCacheEntryAsync returns
\* (never throws) a flag that is true exactly when the local write produced an
\* entry and the cloud write was not attempted or succeeded, with distinct
\* warnings for a local-only, a cloud-only and a double failure.
C12_SaveFlagAndWarnings ==
  (SaveFinished /\ EnumerationSucceeded) =>
    LET cloudFailed == CloudWriteAttempted /\ ~InSaved("cloud.save:true")
    IN /\ ~SaveThrew
       /\ saved.result = "true" <=> (LocalWriteProduced /\ ~cloudFailed)
       /\ saved.result = "true" <=> InSaved("line:Successfully set cache entry.")
       /\ (~LocalWriteProduced /\ ~cloudFailed) <=>
            InSaved("warn:Unable to set local cache entry.")
       /\ (LocalWriteProduced /\ cloudFailed) <=>
            InSaved("warn:Unable to set cloud cache entry.")
       /\ (~LocalWriteProduced /\ cloudFailed) <=>
            InSaved("warn:Unable to set both cloud and local cache entries.")

\* C13: when no cache key could be computed, tryRestoreFromCacheAsync and
\* trySetCacheEntryAsync both return false without querying or writing any tier,
\* without purging or touching any output folder and without throwing.
C13_NoCacheIdIsAMiss ==
  [][(~cacheId.defined /\ builds' = builds) =>
       /\ pc' = "ready"
       /\ returned' = "false"
       /\ log' = NoCacheIdLog
       /\ UNCHANGED <<localStore, cloudStore, outputFolders, tarUtility>>]_vars

\* without a cache id a save and then a restore have both returned false
C13_Witness ==
  /\ ~cacheId.defined
  /\ saves > 0
  /\ restores > 0
  /\ saved.result = "false"
  /\ history[1].result = "false"
  /\ history[1].after = history[1].before

\* C14: local cache writes follow write-to-temp-then-atomic-rename: an entry is
\* present at its final key path in the local tier only once it is completely
\* written, so neither a concurrent lookup nor an interrupted or failed archive
\* creation (a non-zero exit of the tar binary included) can leave or expose a
\* partial entry under the key.
C14_NoPartialEntryUnderKey ==
  /\ \A k \in CacheIds : localStore[k].kind # "truncated"
  /\ \A i \in 1..Len(history) : history[i].buffer.kind # "truncated"

\* some entry below a declared output folder is a symbolic link
HasSymlink(tree) ==
  \E p \in Paths : p[1] \in Range(OutputFolderNames) /\ tree[p] = "link"

\* C15: if any entry at any depth inside an existing declared output folder is
\* a symbolic link, trySetCacheEntryAsync returns false and writes nothing to
\* the local tier or the cloud tier.
C15_SymlinkRefusesSave ==
  [][(/\ HasSymlink(outputFolders)
      /\ cacheId.defined
      /\ pc = "ready"
      /\ (saves' # saves \/ pc' \in {"tarCreate", "tarExit", "jsCreate", "writes"})) =>
       /\ saves' = saves + 1
       /\ pc' = "ready"
       /\ returned' = "false"
       /\ UNCHANGED <<localStore, cloudStore, outputFolders>>]_vars

\* a save refused because of a symbolic link two folders deep, the other
\* entries being regular files
C15_Witness ==
  /\ SaveFinished
  /\ cacheId.defined
  /\ outputFolders[<<"dist", "a">>] = "v1"
  /\ outputFolders[<<"dist", "sub", "b">>] = "link"
  /\ outputFolders[<<"lib", "c">>] = "v1"
  /\ saved.result = "false"
  /\ saved.reportedSymlinks = {<<"dist", "sub", "b">>}
  /\ localStore[cacheId.value] = NoBuffer

\* the symbolic links below the declared output folders at the last save
SymlinksAtSave == {e[1] : e \in {f \in saved.files : f[2] = "link"}}

\* C30: when the enumeration of the output folders for a save meets symbolic
\* links, every symbolic link of every existing declared output folder is
\* reported, not only those of the first folder that holds one.
C30_EverySymlinkReported ==
  (SaveFinished /\ InSaved("error:Unable to include a symbolic link.")) =>
    saved.reportedSymlinks = SymlinksAtSave

(* Properties of the restore and of the archives *)

UnpackEvents == {"tar.untar:0", "tar.untar:1", "js.untar:ok", "js.untar:throw"}

\* the entry the i-th restore found: the local one on a local hit, else the
\* cloud one
EntryFound(i) ==
  IF history[i].localHit THEN localStore[cacheId.value] ELSE cloudStore[cacheId.value]

\* C16: whenever a restore finds an entry, every declared output folder is
\* purged before any archive content is unpacked, so after a successful restore
\* the declared output folders hold exactly the archive's files, and restoring
\* the same entry twice gives the same final state as restoring it once.
C16_PurgeThenExactlyTheArchive ==
  /\ \A i \in 1..Len(log) :
       log[i] \in UnpackEvents => \E j \in 1..(i - 1) : log[j] = "purge"
  /\ pc = "untar" => DeclaredFiles(outputFolders) = {}
  /\ (pc = "extract" /\ ~InLog("tar.untar:1")) => DeclaredFiles(outputFolders) = {}
  /\ \A i \in 1..Len(history) :
       history[i].result = "true" =>
         /\ DeclaredFiles(history[i].after) = EntryFound(i).files
         /\ history[i].after[<<"src", "x">>] = history[i].before[<<"src", "x">>]
         /\ (i < Len(history) /\ history[i + 1].result = "true") =>
              history[i + 1].after = history[i].after

\* two successful restores of an entry without lib/c, the first over a tree
\* that held a stale lib/c
C16_Witness ==
  /\ Len(history) = 2
  /\ history[1].result = "true"
  /\ history[2].result = "true"
  /\ history[1].before[<<"lib", "c">>] = "v2"
  /\ history[1].after[<<"lib", "c">>] = "absent"
  /\ history[1].after[<<"dist", "a">>] = "v1"
  /\ history[2].after = history[1].after
  /\ outputFolders = history[2].after

TarEvents == {"tar.create:start", "tar.create:0", "tar.create:1", "tar.untar:0", "tar.untar:1"}

RestoredAfterSave ==
  /\ pc = "ready"
  /\ saves > 0
  /\ InLog("purge")
  /\ returned = "true"
  /\ outputFolders = history[Len(history)].after

\* the entry that restore unpacked
EntryRestored ==
  IF InLog("local.get:hit") THEN localStore[cacheId.value] ELSE cloudStore[cacheId.value]

\* the entry the last save left in the tier that restore read
EntrySaved == IF InLog("local.get:hit") THEN saved.localEntry ELSE saved.cloudEntry

\* the last save itself wrote the entry of the tier that restore read (a save
\* that threw, or whose write to that tier failed, leaves an older entry there)
SaveWroteTierRead ==
  IF InLog("local.get:hit")
    THEN InSaved("tar.create:0") \/ InSaved("local.save:ok")
    ELSE InSaved("cloud.save:true")

----------------------------------------------------------------------------
(* Properties of the IPC runner *)

\* C19: in the IPC runner, if error-stream output was observed during the
\* invocation and the child then reports after-execute with status Success,
\* the resolved status is SuccessWithWarning; any other status the child
\* reports is returned unchanged, and Success without error-stream output
\* stays Success.
C19_StderrTurnsSuccessIntoWarning ==
  \A i \in DOMAIN runs :
    (runs[i].phase = "returned" /\ runs[i].reported # "none") =>
      runs[i].result = IF runs[i].reported = "Success" /\ runs[i].stderrSeen
                         THEN "SuccessWithWarning"
                         ELSE runs[i].reported

\* one invocation saw stderr output and a reported Success, the next one on the
\* same child a reported Success without stderr output
C19_Witness ==
  /\ Len(runs) = 2
  /\ runs[1].proc = runs[2].proc
  /\ runs[1].phase = "returned" /\ runs[2].phase = "returned"
  /\ runs[1].stderrSeen /\ runs[1].reported = "Success"
  /\ runs[1].result = "SuccessWithWarning"
  /\ ~runs[2].stderrSeen /\ runs[2].reported = "Success"
  /\ runs[2].result = "Success"

\* the status the exit code stands for
StatusOfExit(code, sawStderr) ==
  IF code # "0" THEN "Failure"
  ELSE IF sawStderr THEN "SuccessWithWarning" ELSE "Success"

\* C20: if the child exits before an after-execute message is received, the
\* invocation resolves from the exit code: code 0 without error-stream output
\* gives Success, code 0 with it SuccessWithWarning, and any non-zero exit
\* Failure with the exit code recorded in the operation's error.
C20_ExitCodeResolves ==
  [][\A p \in DOMAIN procs : \A i \in DOMAIN runs :
       (/\ procs[p].state = "running"
        /\ procs'[p].state = "exited"
        /\ runs[i].proc = p
        /\ runs[i].status = "pending") =>
         LET code == procs'[p].exitCode
         IN /\ runs'[i].status = StatusOfExit(code, runs[i].stderrSeen)
            /\ code # "0" => runs'[i].error = code
            /\ code = "0" => runs'[i].error = "none"
            /\ code # "null" =>
                 /\ runs'[i].phase = "returned"
                 /\ runs'[i].result = runs'[i].status]_vars

\* a child that exited with 0 after stderr output, then a new child that
\* exited with 1
C20_Witness ==
  /\ Len(runs) = 2
  /\ runs[1].exitSeen = "0" /\ runs[1].stderrSeen
  /\ runs[1].result = "SuccessWithWarning"
  /\ runs[2].spawned
  /\ runs[2].exitSeen = "1"
  /\ runs[2].result = "Failure"
  /\ runs[2].error = "1"

\* the run command of invocation r has been sent
RunSent(r) == \E k \in DOMAIN r.sent : r.sent[k] = "run"

\* C21: when persistence is not requested, no child process is still alive
\* when an invocation of executeAsync returns a status: the exit command was
\* sent to a child still running and its exit awaited, whatever the order of
\* the sync, after-execute and exit events.
C21_NoChildAliveAfterReturn ==
  ~persist =>
    \A i \in DOMAIN runs :
      runs[i].phase = "returned" => procs[runs[i].proc].state = "exited"

\* C24: an invocation is resolved by an after-execute message only from
\* Running, that is after the run command of that invocation was sent.
C24_FinishedOnlyFromRunning ==
  [][\A i \in DOMAIN runs :
       (runs[i].status = "pending" /\ runs'[i].reported # "none") => RunSent(runs[i])]_vars

\* C22: with persistence requested and the child of a previous invocation
\* still alive, the next invocation spawns no process, waits for no new sync
\* message (the ready latch of the child is kept, and on a child that has
\* synced the run command goes out at once) and sends run to the retained
\* child; a process is spawned only when there is none or the last one exited.
C22_RetainedChildIsReused ==
  [][Len(runs') = Len(runs) + 1 =>
       LET invocation == runs'[Len(runs')]
       IN /\ Len(procs') > Len(procs) =>
               (CurrentProcess = 0 \/ procs[CurrentProcess].state = "exited")
          /\ (/\ persist
              /\ Len(runs) > 0
              /\ CurrentProcess > 0
              /\ procs[CurrentProcess].state = "running") =>
               /\ procs' = procs
               /\ invocation.proc = CurrentProcess
               /\ ~invocation.spawned
               /\ procs[CurrentProcess].ready =>
                    (invocation.isConnected /\ invocation.sent = <<"run">>)]_vars

\* a second invocation that found the child of the first, which had returned
\* the reported status, and sent it the run command
C22_Witness ==
  /\ persist
  /\ Len(runs) = 2
  /\ Len(procs) = 1
  /\ runs[1].phase = "returned" /\ runs[1].reported = "Success"
  /\ runs[2].proc = 1 /\ ~runs[2].spawned
  /\ runs[2].sent = <<"run">>
  /\ runs[2].status = "pending"

\* C23: the run command is sent to a child only after that child has sent a
\* sync message.
C23_RunOnlyAfterSync ==
  \A i \in DOMAIN runs : RunSent(runs[i]) => procs[runs[i].proc].ready

\* the run command sent to a newly spawned child after its sync message
C23_Witness ==
  /\ Len(runs) = 1
  /\ runs[1].spawned
  /\ procs[1].ready
  /\ RunSent(runs[1])
  /\ runs[1].phase = "awaiting"

\* C25: a requestRun message calls the re-run hook with the requestor of the
\* message and changes nothing else: no child becomes ready, no command is
\* sent, and no invocation is resolved or altered.
C25_RequestRunOnlyCallsHook ==
  [][hookCalls' # hookCalls =>
       /\ \E requestor \in {"watcher"} : hookCalls' = Append(hookCalls, requestor)
       /\ UNCHANGED <<persist, procs, runs, uncaught>>]_vars

\* the hook called while the invocation waits for the sync message of its
\* child: the child is not ready, no command is sent, the invocation pending
C25_Witness ==
  /\ Len(runs) = 1
  /\ procs[1].state = "running"
  /\ ~procs[1].ready
  /\ runs[1].phase = "awaiting"
  /\ runs[1].status = "pending"
  /\ runs[1].sent = <<>>
  /\ hookCalls = <<"watcher">>

\* C26: a message that is no sync, requestRun or after-execute message (a
\* non-object, null, an object with an unknown event name) is ignored: it
\* changes no state, calls no hook, sends no command and raises no exception.
C26_OtherMessagesIgnored ==
  [][Message => UNCHANGED ipcVars]_vars

\* C27: a protocol error of the IPC runner (an unexpected message, a transport
\* error, an exit of the child before its after-execute message) resolves the
\* invocation to Failure and is never raised as an exception.
C27_ProtocolErrorIsFailure ==
  /\ uncaught = {}
  /\ \A i \in DOMAIN runs :
       /\ runs[i].phase # "threw"
       /\ runs[i].exitSeen # "none" => runs[i].status = "Failure"

----------------------------------------------------------------------------
(* Properties of the logger registry *)

\* the requests for loggerName among the first n
RequestsFor(loggerName, n) ==
  {k \in 1..n : loggerRequests[k].loggerName = loggerName}

\* C28: the first request for a name returns a new logger registered under
\* that name, every later request for the name throws and leaves the registry
\* unchanged, so a name is bound to at most one logger for the manager's
\* lifetime.
C28_OneLoggerPerName ==
  [][Len(loggerRequests') = Len(loggerRequests) + 1 =>
       LET n == Len(loggerRequests)
           request == loggerRequests'[n + 1]
           first == RequestsFor(request.loggerName, n) = {}
       IN /\ first =>
               /\ request.result = "logger"
               /\ \A loggerName \in LoggerNames :
                    scopedLoggers[loggerName] # request.scopedLogger
               /\ scopedLoggers' =
                    [scopedLoggers EXCEPT ![request.loggerName] = request.scopedLogger]
          /\ ~first =>
               /\ request.result = "throw"
               /\ scopedLoggers' = scopedLoggers
          /\ \A loggerName \in LoggerNames :
               scopedLoggers[loggerName] # NoLogger =>
                 scopedLoggers'[loggerName] = scopedLoggers[loggerName]]_vars

\* a name requested three times, another name once in between
C28_Witness ==
  /\ Len(loggerRequests) = 4
  /\ loggerRequests[1].loggerName = "lint" /\ loggerRequests[1].result = "logger"
  /\ loggerRequests[2].loggerName = "lint" /\ loggerRequests[2].result = "throw"
  /\ loggerRequests[3].loggerName = "" /\ loggerRequests[3].result = "logger"
  /\ loggerRequests[4].loggerName = "lint" /\ loggerRequests[4].result = "throw"
  /\ scopedLoggers["lint"] = 1
  /\ scopedLoggers[""] = 3

\* the fields of an invocation that its listeners and its promise write
Outcome(r) == <<r.phase, r.status, r.hasWarningOrError, r.error, r.result, r.attached>>

\* C31: on an after-execute message the engine detaches the listeners of the
\* invocation (stdout, stderr, message, error, exit) before it resolves, so no
\* listener of an invocation finished that way reacts to anything the child
\* does later, and an invocation starts without the error-stream output seen
\* by an earlier one.
C31_FinishedInvocationIsDetached ==
  [][/\ \A i \in DOMAIN runs :
          /\ (runs[i].reported = "none" /\ runs'[i].reported # "none") => ~runs'[i].attached
          /\ (runs[i].phase = "returned" /\ ~runs[i].attached) =>
               Outcome(runs'[i]) = Outcome(runs[i])
     /\ Len(runs') > Len(runs) =>
          /\ ~runs'[Len(runs')].hasWarningOrError
          /\ ~runs'[Len(runs')].stderrSeen]_vars

\* on a persisted child the first invocation returned Success without
\* error-stream output and keeps it, while the second saw such output and
\* returned SuccessWithWarning
C31_Witness ==
  /\ persist
  /\ Len(runs) = 2
  /\ runs[2].proc = runs[1].proc
  /\ runs[1].reported = "Success" /\ runs[1].result = "Success"
  /\ ~runs[1].hasWarningOrError
  /\ runs[2].hasWarningOrError
  /\ runs[2].reported = "Success" /\ runs[2].result = "SuccessWithWarning"

\* the children that have not exited
Live == {p \in DOMAIN procs : procs[p].state = "running"}

\* C32: for every interleaving of overlapping invocations of one runner, at
\* most one child of the runner is alive at any time, and no invocation spawns
\* a process while a live one exists.
C32_AtMostOneLiveChild ==
  [][/\ Cardinality(Live) <= 1
     /\ Len(procs') > Len(procs) => Live = {}]_vars

\* two invocations overlap on the one child, which has not synced yet
C32_Witness ==
  /\ Len(runs) = 2
  /\ Len(procs) = 1
  /\ Live = {1}
  /\ ~procs[1].ready
  /\ runs[1].status = "pending" /\ runs[2].status = "pending"
  /\ runs[1].phase = "awaiting" /\ runs[2].phase = "awaiting"

\* what invocation i had sent before the step, nothing if the step started it
SentBefore(i) == IF i \in DOMAIN runs THEN runs[i].sent ELSE <<>>

\* C33: every command the engine sends (run or exit) goes to a live child: it
\* never sends a command to, waits for the exit of, or connects as to an
\* existing process to a child that has exited, a child ended by a signal
\* (exit code null) included.
C33_CommandsOnlyToLiveChild ==
  [][\A i \in DOMAIN runs' :
       /\ runs'[i].sent # SentBefore(i) => procs'[runs'[i].proc].state = "running"
       /\ runs'[i].phase = "awaitingExit" => procs'[runs'[i].proc].state = "running"
       /\ i \notin DOMAIN runs => procs'[runs'[i].proc].state = "running"]_vars

\* the number of run commands among the commands sent
RunsSent(r) == Cardinality({k \in DOMAIN r.sent : r.sent[k] = "run"})

\* C34: an invocation sends the run command at most once and only while it
\* awaits its result: no run command is sent once the invocation is resolved.
C34_RunOnlyWhileAwaiting ==
  [][\A i \in DOMAIN runs :
       /\ RunsSent(runs'[i]) <= 1
       /\ RunsSent(runs'[i]) > RunsSent(runs[i]) => runs[i].status = "pending"]_vars


----------------------------------------------------------------------------
(* Properties settled over the restore, the validation and the traversal *)

\* C35: tryRestoreFromCacheAsync modifies the declared output folders only when
\* it returns true: a restore that returned false (no cache id, a miss in every
\* tier, or a found entry that could not be unpacked) left the output folders
\* with the contents they had when it was called.
C35_OutputsChangedOnlyOnSuccess ==
  \A i \in 1..Len(history) :
    history[i].result = "false" => history[i].after = history[i].before


\* the segments of a path, split at every "/" and "\"
RECURSIVE Segments(_, _)
Segments(path, current) ==
  IF path = <<>> THEN <<current>>
  ELSE IF Head(path) \in {47, 92} THEN <<current>> \o Segments(Tail(path), <<>>)
  ELSE Segments(Tail(path), Append(current, Head(path)))

\* the file is inside the folder `name` of the project folder
LiesUnder(file, projectRelativeFolder, name) ==
  LET folder == Append(Segments(projectRelativeFolder, <<>>), name)
      segments == Segments(file, <<>>)
  IN /\ Len(segments) > Len(folder)
     /\ SubSeq(segments, 1, Len(folder)) = folder

\* some tracked input file of the options lies under a declared output folder
InputsOverlapOutputs(opts) ==
  /\ opts.trackedProjectFiles.defined
  /\ opts.projectOutputFolderNames.defined
  /\ \E i \in 1..Len(opts.trackedProjectFiles.value),
        j \in 1..Len(opts.projectOutputFolderNames.value) :
       LiesUnder(opts.trackedProjectFiles.value[i], opts.projectRelativeFolder,
                 opts.projectOutputFolderNames.value[j])

Validated == projectBuildCache # NotComputed

\* C36: tryGetProjectBuildCache creates a ProjectBuildCache only when the
\* tracked-file list is available and no tracked input file lies under a
\* declared output folder of the project; otherwise it returns undefined, and
\* no restore or save is ever made for such a project.
C36_CreatedOnlyForValidProject ==
  LET opts == buildCacheOptions.value
      usable == opts.trackedProjectFiles.defined /\ ~InputsOverlapOutputs(opts)
  IN /\ ~Validated => instanceCalls = <<>>
     /\ Validated =>
          /\ projectBuildCache.kind = "instance" => usable
          /\ ~usable => projectBuildCache = UndefinedCache /\ instanceCalls = <<>>
          /\ InputsOverlapOutputs(opts) <=> terminalWarnings # <<>>

\* the tracked files "p/lx/a" and "g/p/l/a" of project "g\p" with output folder
\* "l": the second lies under it, and the call returned undefined
C36_Witness ==
  /\ Validated
  /\ buildCacheOptions.value.projectRelativeFolder = <<103, 92, 112>>
  /\ buildCacheOptions.value.projectOutputFolderNames = Some(<< <<108>> >>)
  /\ buildCacheOptions.value.trackedProjectFiles =
       Some(<< <<112, 47, 108, 120, 47, 97>>, <<103, 47, 112, 47, 108, 47, 97>> >>)
  /\ InputsOverlapOutputs(buildCacheOptions.value)
  /\ projectBuildCache = UndefinedCache


\* the projects q with an edge path of one or more dependencies from p
RECURSIVE DependsOnWithin(_, _, _, _)
DependsOnWithin(d, p, q, hops) ==
  IF hops = 0 THEN FALSE
  ELSE \E i \in 1..Len(d[p]) : d[p][i] = q \/ DependsOnWithin(d, d[p][i], q, hops - 1)

\* the project is on a dependency cycle
OnCycle(d, p) == DependsOnWithin(d, p, p, MaxProjects)

TraversalEnded == traversalPc \in {"sort", "undefined"}

\* C37: the closure traversal of _getCacheId ends for every finite dependency
\* graph, graphs with dependency cycles included, and the for-of loop runs at
\* most twice for any one project; what it has collected when it ends is what
\* the traversal computed in one piece collects.
C37_TraversalTerminates ==
  /\ <>TraversalEnded
  /\ [](\A p \in Projects : timesProcessed[p] <= 2)
  /\ [](TraversalEnded =>
          LET collected == CollectProjectStates(traversalOptions, <<RootProject>>,
                                                {}, <<>>)
          IN /\ collected.known <=> traversalPc = "sort"
             /\ collected.projectStates = statesPushed)

\* the loop was left on a graph where the root and project 2 depend on each
\* other and on project 3, which was processed twice
C37_Witness ==
  /\ traversalPc = "sort"
  /\ OnCycle(traversalOptions.dependencyProjects, RootProject)
  /\ traversalOptions.dependencyProjects[RootProject] = <<2, 3>>
  /\ timesProcessed[3] = 2
  /\ \E i \in 1..Len(traversalOptions.dependencyProjects[2]) :
       traversalOptions.dependencyProjects[2][i] = RootProject


----------------------------------------------------------------------------
(* Properties of makeRequestAsync *)

\* the response of request `i` was a 301 or 302
AnsweredByRedirect(i) ==
  /\ webRequests[i].phase = "ended"
  /\ server[webRequests[i].url].statusCode \in {301, 302}

\* C38: with redirect 'follow', a request answered by 301 or 302 with a Location
\* header settles with the response of the redirect target (redirected = true),
\* never with the 301/302 response itself; with 'error' it rejects.
C38_RedirectFollowedOrRejected ==
  \A i \in 1..Len(webRequests) :
    (AnsweredByRedirect(i) /\ webRequests[i].promise.kind # "pending") =>
      /\ (redirect = "follow" /\ server[webRequests[i].url].location # NoLocation) =>
           /\ webRequests[i].promise.from # i
           /\ webRequests[i].promise.kind = "resolved" => webRequests[i].promise.redirected
      /\ redirect = "error" => webRequests[i].promise.kind = "rejected"


----------------------------------------------------------------------------
(* Properties of updateAssetHashes *)

\* `target` is reached from `ch` along one or more chunk dependencies
RECURSIVE ChunkDependsOnWithin(_, _, _)
ChunkDependsOnWithin(ch, target, hops) ==
  IF hops = 0 THEN FALSE
  ELSE \E d \in DependenciesOf(compilation, ch) :
         d = target \/ ChunkDependsOnWithin(d, target, hops - 1)

\* the chunk dependency graph holds a cycle
ChunkGraphHasCycle == \E ch \in Chunks : ChunkDependsOnWithin(ch, ch, MaxChunks)

CycleErrorPushed ==
  \E i \in 1..Len(compilationErrors) :
    compilationErrors[i].message = "Detected a cycle in the chunk dependencies"

\* C39: updateAssetHashes processes a chunk only after every chunk it depends on
\* has been processed and has a recorded hash replacement, and it pushes the
\* 'Detected a cycle in the chunk dependencies' error only when the chunk
\* dependency graph really holds a cycle (not when a chunk merely lacks a
\* rendered hash).
C39_DependencyOrderAndRealCycles ==
  /\ \A i \in 1..Len(processedChunks) :
       /\ processedChunks[i].unprocessed = {}
       /\ processedChunks[i].missing = {}
  /\ CycleErrorPushed => ChunkGraphHasCycle


----------------------------------------------------------------------------
(* Properties of the internal assertions of ProjectBuildCache *)

AssertionErrors ==
  {"throw:Expected the cache entry buffer to be set.",
   "throw:Expected the local cache entry path to be set."}

\* C40: the two internal assertion errors of ProjectBuildCache are never thrown:
\* whenever tryRestoreFromCacheAsync takes the built-in unpack path a cache
\* entry buffer is there or can be read from the local entry, and whenever
\* trySetCacheEntryAsync attempts a cloud write it has a buffer or a local
\* entry path.
C40_AssertionsUnreachable ==
  /\ returned \notin AssertionErrors
  /\ saved.result \notin AssertionErrors
  /\ \A i \in 1..Len(history) : history[i].result \notin AssertionErrors
  /\ pc = "extract" =>
       \/ locals.cacheEntryBuffer # NoBuffer
       \/ /\ locals.localCacheEntryPath # NoEntry
          /\ readFileToBufferAsync(locals.localCacheEntryPath) # NoBuffer
  /\ (pc = "writes" /\ locals.updateCloudCacheSuccess = "pending") =>
       locals.cacheEntryBuffer # NoBuffer

\* a save that wrote to the cloud from the entry the tar binary created, then a
\* restore that went through the built-in unpack path after tar failed
C40_Witness ==
  /\ pc = "ready"
  /\ InSaved("tar.create:0")
  /\ InSaved("cloud.save:call")
  /\ InLog("tar.untar:1")
  /\ InLog("js.untar:ok")
  /\ returned = "true"

=============================================================================
